---- MODULE Spec2Model ----
(***************************************************************************)
(* Verification model of the gossip code of the repository.                *)
(*                                                                         *)
(*  - sharded gossip, incoming_accept                                      *)
(*      crates/kitsune_p2p/kitsune_p2p/src/gossip/sharded_gossip/accept.rs *)
(*  - sharded gossip, incoming_agents                                      *)
(*      crates/kitsune_p2p/kitsune_p2p/src/gossip/sharded_gossip/agents.rs *)
(*  - the full-sync gossip loop                                            *)
(*      crates/kitsune_p2p/kitsune_p2p/src/spawn/actor/gossip.rs           *)
(*  - the kitsune-direct event handlers                                    *)
(*      crates/kitsune_p2p/direct/src/v1.rs                                *)
(*  - sharded gossip, incoming_missing_agents, and the lock of inner       *)
(*      crates/kitsune_p2p/kitsune_p2p/src/gossip/sharded_gossip/agents.rs *)
(*  - the remote_signal host function                                      *)
(*      crates/holochain/src/core/ribosome/host_fn/remote_signal.rs        *)
(*  - the integration workflow                                             *)
(*      crates/holochain/src/core/workflow/integrate_dht_ops_workflow.rs   *)
(*                                                                         *)
(* Each part has its own specification (SpecAccept, SpecAgents,            *)
(* SpecGossip, SpecGossipFair, SpecSharded, SpecStale, SpecTimeout,        *)
(* SpecSignal, SpecIntegrate); the variables of the other parts keep       *)
(* their initial value.                                                    *)
(***************************************************************************)
EXTENDS Integers, Sequences, FiniteSets, TLC

VARIABLES
    \* ---- shared state of one ShardedGossip instance (inner) ----
    local_agents,   \* inner.local_agents: the agents joined on this node
    state_map,      \* inner.state_map: the HashMap peer cert -> RoundState, as its set of entries
    outgoing,       \* inner.outgoing: queue of (GossipTgt, HowToConnect, message)
    gossip_type,    \* self.gossip_type of the instance: "Recent" or "Historical"
    now,            \* the clock read when a RoundState is created
    acc,            \* the incoming_accept tasks: position and locals of each
    \* ---- incoming_agents ----
    agent_store,    \* the peer store of the node: agent -> signed_at of the record held, 0 for none
    agt,            \* the incoming_agents tasks: position and locals of each
    \* ---- the full-sync gossip loop and the stores it reaches ----
    pending_gossip_list, \* GossipData.pending_gossip_list
    gl,             \* gossip_loop: its position and the locals of process_next_gossip
    entry_store,    \* the entries each agent's persist store holds
    info_store,     \* the agent-info record each agent's node holds: signed_at, 0 for none
    calls,          \* the handle_gossip calls of the last gossip_ops delivery
    last,           \* what the current or last exchange reported, asked for and delivered
    \* ---- the lock of inner, and incoming_missing_agents ----
    lock,           \* the holder of the lock that share_mut takes on inner, or "free"
    mis,            \* the incoming_missing_agents tasks: position and locals of each
    \* ---- the remote_signal host function ----
    sig,            \* the remote_signal call: its input and what it returned
    sends,          \* the tasks remote_signal spawned, one call_remote each
    \* ---- integrate_dht_ops_workflow ----
    db,             \* the databases of the cell environment, as committed
    wf,             \* the workflow run: its position and its workspace
    \* ---- dht_op_into_light ----
    conv,           \* the ops handed to dht_op_into_light and what each call returned
    \* ---- DnaBundle::into_dna_file ----
    bun,            \* the bundle (manifest and resources) and what into_dna_file returned
    \* ---- the registry of environments ----
    ENVIRONMENTS,   \* the static map path -> EnvironmentWrite, as its set of entries
    dirs,           \* the directories that exist
    init_log,       \* the paths initialize_databases was run for, in order
    env_calls,      \* the EnvironmentWrite::new calls made: arguments and result
    \* ---- Cell ----
    chain,          \* the source chain committed in the cell environment
    cel,            \* the Cell::create, Cell::genesis and call_zome tasks
    cells,          \* the tasks whose Cell::create returned a Cell
    invokes         \* the invoke-zome workflows started, in order

acceptVars == <<state_map, outgoing, gossip_type, now, acc>>
agentsVars == <<agent_store, agt>>
gossipVars == <<pending_gossip_list, gl, entry_store, info_store, calls, last>>
missingVars == <<mis>>
signalVars == <<sig, sends>>
integrateVars == <<db, wf>>
\* the variables of the parts outside kitsune gossip
lightVars == <<conv>>
bundleVars == <<bun>>
envVars == <<ENVIRONMENTS, dirs, init_log, env_calls>>
cellVars == <<chain, cel, cells, invokes>>
extraVars == <<lightVars, bundleVars, envVars, cellVars>>
restVars == <<signalVars, integrateVars, extraVars>>
\* the variables of kitsune gossip, remote_signal and the integrate workflow
oldVars == <<local_agents, acceptVars, agentsVars, gossipVars, lock, missingVars,
             signalVars, integrateVars>>
vars == <<local_agents, state_map, outgoing, gossip_type, now, acc, agent_store, agt,
          pending_gossip_list, gl, entry_store, info_store, calls, last, lock, mis,
          sig, sends, db, wf, conv, bun, ENVIRONMENTS, dirs, init_log, env_calls,
          chain, cel, cells, invokes>>

----------------------------------------------------------------------------
\* Bounds of the model.

\* number of incoming_accept calls that may be in flight or finished
MaxAccepts == 2
\* the clock stops at this value
MaxClock == 2
\* number of incoming_agents calls
MaxAgentsCalls == 1
\* the signing times of agent-info records are 1..MaxSignedAt
MaxSignedAt == 2
\* number of bits of a bloom filter
BloomBits == 4
\* the entries that exist are 1..MaxOps
MaxOps == 2
\* number of incoming_missing_agents calls
MaxMissing == 1
\* number of agents a remote signal may list
MaxSignalAgents == 2
\* number of ops the integration queue may hold
MaxQueue == 2
\* number of runs of the integration workflow
MaxRuns == 2
MaxConvert == 2
MaxZomes == 2
MaxCoordinatorZomes == 1
MaxEnvCalls == 3
MaxCellCalls == 4

----------------------------------------------------------------------------
\* Values.

Agents == {"a1", "a2"}
Certs == {"certA", "certB"}
Cons == {"con1", "con2", "con3"}
\* the circular key space, as a small set of locations
Points == {0, 1}
\* the arc sets a remote may send with its Accept
RemoteArcSets == {{1}}

\* Tx2ConHnd::peer_cert: two connections of the same peer, one of another
PeerCert(con) == IF con = "con3" THEN "certB" ELSE "certA"

\* the arc each local agent declares
AgentArc(a) == IF a = "a1" THEN {0} ELSE {0, 1}

NoState == [common_arc_set |-> {}, started_at |-> 0]

NoTask == [pc |-> "new", con |-> "con1", remote_arc_set |-> {}, local_agents |-> {},
           state |-> NoState, gossip |-> <<>>, result |-> "none"]

\* a task that returned: its locals are dropped
Returned(result) ==
    [NoTask EXCEPT !.pc = "done", !.result = result]

\* the agents whose agent-info the peer store may hold
PeerAgents == {"a1", "a2", "r1"}

\* the location of an agent on the key space
AgentLoc(a) == IF a = "a1" THEN 0 ELSE 1

AgentIx(a) == IF a = "a1" THEN 0 ELSE IF a = "a2" THEN 1 ELSE 2

\* MetaOpKey::Agent(agent, signed_at_ms)
AgentKeys == [agent : PeerAgents, signed_at : 1..MaxSignedAt]

NoAgentsTask == [pc |-> "new", common_arc_set |-> {}, remote_bloom |-> {}, inserted |-> {},
                 had_agent |-> FALSE, infos |-> {}, reply |-> <<>>, result |-> "none"]

\* the agents of the full-sync network
GAgents == {"A", "B", "C"}

\* the agent whose agent-info record the nodes exchange
Subject == "A"

NoLoop == [pc |-> "tick", dir |-> "to", from_agent |-> "A", to_agent |-> "A",
           op_hashes_from |-> {}, agent_info_from |-> {},
           from_needs |-> {}, from_needs_agents |-> {},
           to_needs |-> {}, to_needs_agents |-> {},
           r_ops |-> {}, r_peers |-> {}]

NoExchange == [from |-> "A", to |-> "A", reported_from |-> {}, reported_to |-> {},
               info_from |-> {}, info_to |-> {}, asked_from |-> {}, asked_to |-> {},
               listed_from |-> {}, listed_to |-> {}, sent_from |-> {}, sent_to |-> {},
               clean |-> FALSE, complete |-> FALSE]

\* remote_signal before it is called, and the integration workflow before a run
NoSignal == [pc |-> "idle", zome |-> "zome1", agents |-> <<>>, signal |-> "hey",
             converted |-> FALSE, result |-> "none"]

NoDb == [queue |-> <<>>, integrated |-> {}, cas |-> {}]

NoRun == [pc |-> "idle", run |-> 0, ops |-> <<>>, drained |-> <<>>,
          integration_queue |-> <<>>, integrated_dht_ops |-> {}, cas |-> {},
          result |-> "none"]

NoMissingTask == [pc |-> "new", cert |-> "certA", state |-> NoState, agents |-> {},
                  local_agents |-> {}, within |-> {}, result |-> "none"]

\* nothing was handed to dht_op_into_light
NoConv == [ops |-> <<>>, lights |-> <<>>]

\* no bundle was converted
NoBundle == [integrity |-> <<>>, coordinator |-> <<>>, resources |-> <<>>,
             result |-> [kind |-> "none"]]

\* a source chain without any element
NoChain == [genesis |-> FALSE, initialized |-> FALSE]

NoCellTask == [op |-> "none", pc |-> "new", init |-> "none", result |-> "none"]

----------------------------------------------------------------------------
\* share_mut: the closure runs with the lock of inner held and cannot await; the
\* value of the lock when share_mut has returned

\* a guard that is kept by the task until its next critical section
ShareMutKeptOverAwait(task) == task

ShareMut(task) == "free"

----------------------------------------------------------------------------
\* incoming_accept

\* store::local_agent_arcs: the arcs of the given local agents
LocalAgentArcs(agents) == UNION {AgentArc(a) : a \in agents}

\* generate_blooms: the new RoundState over the common arc set, and the bloom
\* messages in the order they are pushed: the agent bloom only for the recent
\* gossip type, then the ops bloom
GenerateBloomsState(local_intervals, remote_arc_set, t) ==
    [common_arc_set |-> local_intervals \cap remote_arc_set, started_at |-> t]

GenerateBloomsGossip(type, st) ==
    IF type = "Recent"
    THEN << [kind |-> "Agents", arc |-> st.common_arc_set],
            [kind |-> "Ops", arc |-> st.common_arc_set] >>
    ELSE << [kind |-> "Ops", arc |-> st.common_arc_set] >>

\* HashMap::insert keeps the entries of the other keys and puts the new value
\* in place of any entry of the same key
HashMapInsertKeepingOld(map, key, value) ==
    map \cup {[cert |-> key, state |-> value]}

HashMapInsert(map, key, value) ==
    {e \in map : e.cert # key} \cup {[cert |-> key, state |-> value]}

\* the loop over gossip: one push_back per message, in order
PushAllReversed(queue, cert, con, gossip) ==
    queue \o [i \in 1..Len(gossip) |->
                [cert |-> cert, con |-> con, msg |-> gossip[Len(gossip) + 1 - i]]]

PushAll(queue, cert, con, gossip) ==
    queue \o [i \in 1..Len(gossip) |-> [cert |-> cert, con |-> con, msg |-> gossip[i]]]

\* lines 12-26: read local_agents under the lock, pick any local agent;
\* without one return Ok, else ask the store for the local arcs
AcceptStart(h, con, remote_arc_set) ==
    /\ acc[h].pc = "new"
    /\ lock = "free"
    /\ lock' = ShareMut(<<"accept", h>>)
    /\ \A g \in 1..(h - 1) : acc[g].pc # "new"
    /\ IF local_agents = {}
       THEN acc' = [acc EXCEPT ![h] = Returned("Ok")]
       ELSE \E agent \in local_agents :
              acc' = [acc EXCEPT ![h] = [@ EXCEPT !.pc = "arcs", !.con = con,
                                            !.remote_arc_set = remote_arc_set,
                                            !.local_agents = local_agents]]
    /\ UNCHANGED <<local_agents, state_map, outgoing, gossip_type, now, agentsVars, gossipVars, missingVars, restVars>>

\* line 26 resolves with the arcs: generate_blooms starts and creates the state
AcceptLocalArcsOk(h) ==
    /\ acc[h].pc = "arcs"
    /\ LET st == GenerateBloomsState(LocalAgentArcs(acc[h].local_agents),
                                     acc[h].remote_arc_set, now)
       IN acc' = [acc EXCEPT ![h] = [@ EXCEPT !.pc = "blooms", !.state = st,
                                        !.remote_arc_set = {}, !.local_agents = {},
                                        !.gossip = GenerateBloomsGossip(gossip_type, st)]]
    /\ UNCHANGED <<local_agents, state_map, outgoing, gossip_type, now, agentsVars, gossipVars, lock, missingVars, restVars>>

\* line 26 resolves with an error: `?` returns it
AcceptLocalArcsErr(h) ==
    /\ acc[h].pc = "arcs"
    /\ acc' = [acc EXCEPT ![h] = Returned("Err")]
    /\ UNCHANGED <<local_agents, state_map, outgoing, gossip_type, now, agentsVars, gossipVars, lock, missingVars, restVars>>

\* lines 33-56: generate_blooms resolves; the state is inserted and the bloom
\* messages are queued in one critical section
AcceptBloomsOk(h) ==
    /\ acc[h].pc = "blooms"
    /\ lock = "free"
    /\ lock' = ShareMut(<<"accept", h>>)
    /\ state_map' = HashMapInsert(state_map, PeerCert(acc[h].con), acc[h].state)
    /\ outgoing' = PushAll(outgoing, PeerCert(acc[h].con), acc[h].con, acc[h].gossip)
    /\ acc' = [acc EXCEPT ![h] = Returned("Ok")]
    /\ UNCHANGED <<local_agents, gossip_type, now, agentsVars, gossipVars, missingVars, restVars>>

\* generate_blooms resolves with an error after the state was inserted
AcceptBloomsErrAfterInsert(h) ==
    /\ acc[h].pc = "blooms"
    /\ state_map' = HashMapInsert(state_map, PeerCert(acc[h].con), acc[h].state)
    /\ acc' = [acc EXCEPT ![h] = Returned("Err")]
    /\ UNCHANGED <<local_agents, outgoing, gossip_type, now, agentsVars, gossipVars, lock, missingVars, restVars>>

\* line 41: generate_blooms resolves with an error
AcceptBloomsErr(h) ==
    /\ acc[h].pc = "blooms"
    /\ acc' = [acc EXCEPT ![h] = Returned("Err")]
    /\ UNCHANGED <<local_agents, state_map, outgoing, gossip_type, now, agentsVars, gossipVars, lock, missingVars, restVars>>

\* AsGossipModule::local_agent_join / local_agent_leave
LocalAgentJoin(a) ==
    /\ a \notin local_agents
    /\ lock = "free"
    /\ local_agents' = local_agents \cup {a}
    /\ UNCHANGED <<acceptVars, agentsVars, gossipVars, lock, missingVars, restVars>>

LocalAgentLeave(a) ==
    /\ a \in local_agents
    /\ lock = "free"
    /\ local_agents' = local_agents \ {a}
    /\ UNCHANGED <<acceptVars, agentsVars, gossipVars, lock, missingVars, restVars>>

\* time passes
Tick ==
    /\ now < MaxClock
    /\ now' = now + 1
    /\ UNCHANGED <<local_agents, state_map, outgoing, gossip_type, acc, agentsVars, gossipVars, lock, missingVars, restVars>>

InitAccept ==
    /\ local_agents = {}
    /\ state_map = {}
    /\ outgoing = <<>>
    /\ gossip_type \in {"Recent", "Historical"}
    /\ now = 1
    /\ acc = [h \in 1..MaxAccepts |-> NoTask]
    \* the other parts are idle
    /\ agent_store = [a \in PeerAgents |-> 0]
    /\ agt = [k \in 1..MaxAgentsCalls |-> NoAgentsTask]
    /\ pending_gossip_list = <<>>
    /\ gl = NoLoop
    /\ entry_store = [a \in GAgents |-> {}]
    /\ info_store = [a \in GAgents |-> 0]
    /\ calls = {}
    /\ last = NoExchange
    /\ lock = "free"
    /\ mis = [m \in 1..MaxMissing |-> NoMissingTask]
    /\ sig = NoSignal
    /\ sends = <<>>
    /\ db = NoDb
    /\ wf = NoRun
    /\ conv = NoConv
    /\ bun = NoBundle
    /\ ENVIRONMENTS = {}
    /\ dirs = {}
    /\ init_log = <<>>
    /\ env_calls = <<>>
    /\ chain = NoChain
    /\ cel = [t \in 1..MaxCellCalls |-> NoCellTask]
    /\ cells = {}
    /\ invokes = <<>>

NextAccept ==
    \/ \E h \in 1..MaxAccepts, con \in Cons, ras \in RemoteArcSets : AcceptStart(h, con, ras)
    \/ \E h \in 1..MaxAccepts : AcceptLocalArcsOk(h)
    \/ \E h \in 1..MaxAccepts : AcceptLocalArcsErr(h)
    \/ \E h \in 1..MaxAccepts : AcceptBloomsOk(h)
    \/ \E h \in 1..MaxAccepts : AcceptBloomsErr(h)
    \/ \E a \in Agents : LocalAgentJoin(a)
    \/ \E a \in Agents : LocalAgentLeave(a)
    \/ Tick

SpecAccept == InitAccept /\ [][NextAccept]_vars

----------------------------------------------------------------------------
\* Claims about incoming_accept.

\* the RoundStates state_map holds for a peer certificate
RoundsOf(map, cert) == {e.state : e \in {x \in map : x.cert = cert}}

\* C1: in every reachable state the round table holds at most one RoundState
\* for each peer certificate, however the Accepts for it interleave.
C1_OneRoundPerCert ==
    \A c \in Certs : Cardinality({e \in state_map : e.cert = c}) <= 1

\* two Accepts that arrived on different connections of the same peer have both
\* been committed, and the table holds a round for that peer
C1_Witness ==
    \E i, j \in 1..Len(outgoing) :
        /\ outgoing[i].cert = outgoing[j].cert
        /\ outgoing[i].con # outgoing[j].con
        /\ RoundsOf(state_map, outgoing[i].cert) # {}

\* C2: when a round exists for a peer certificate and another Accept for it is
\* committed, the round that is kept is the one with the later started_at: the
\* started_at of the round held for a certificate never goes back.
C2_KeptRoundIsLatest ==
    [][\A c \in Certs :
         \A old \in RoundsOf(state_map, c) :
           \A new \in RoundsOf(state_map', c) :
              new.started_at >= old.started_at]_vars

\* C3: when incoming_accept completes successfully (a local agent exists), the
\* round table maps the connection's peer certificate to the RoundState that
\* generate_blooms produced, and every bloom message it produced is appended
\* to the outgoing queue, in the order generated, addressed to that
\* certificate and to the connection the Accept arrived on.
C3_AcceptCommits ==
    [][\A h \in 1..MaxAccepts :
         (acc[h].pc = "blooms" /\ acc'[h].pc = "done" /\ acc'[h].result = "Ok") =>
            LET cert == PeerCert(acc[h].con)
                n == Len(outgoing)
            IN /\ RoundsOf(state_map', cert) = {acc[h].state}
               /\ Len(outgoing') = n + Len(acc[h].gossip)
               /\ SubSeq(outgoing', 1, n) = outgoing
               /\ \A i \in 1..Len(acc[h].gossip) :
                     outgoing'[n + i] =
                        [cert |-> cert, con |-> acc[h].con, msg |-> acc[h].gossip[i]]]_vars

\* an Accept has completed on a node of the recent gossip type: its agent
\* bloom and its ops bloom are the last two messages of the queue, and the
\* table holds the round of that peer
C3_Witness ==
    /\ \E h \in 1..MaxAccepts : acc[h].pc = "done" /\ acc[h].result = "Ok"
    /\ Len(outgoing) >= 2
    /\ LET n == Len(outgoing)
       IN /\ outgoing[n - 1].msg.kind = "Agents"
          /\ outgoing[n].msg.kind = "Ops"
          /\ outgoing[n - 1].con = outgoing[n].con
          /\ RoundsOf(state_map, outgoing[n].cert) # {}

\* C26: a call of incoming_accept that returns without completing -- Ok for
\* want of a local agent, or the error of the local-arc query or of the
\* bloom generation -- leaves state_map and the outgoing queue as they were.
C26_FailedAcceptChangesNothing ==
    [][\A h \in 1..MaxAccepts :
          (/\ acc[h].pc # "done"
           /\ acc'[h].pc = "done"
           /\ ~(acc[h].pc = "blooms" /\ acc'[h].result = "Ok"))
          => UNCHANGED <<state_map, outgoing>>]_vars

C26_Witness ==
    /\ \E h \in 1..MaxAccepts : acc[h] = Returned("Err")
    /\ state_map = {}
    /\ outgoing = <<>>

----------------------------------------------------------------------------
\* Bloom filters over agent-info keys.

\* the bits a key sets and tests
BloomHashes(key) ==
    { (AgentIx(key.agent) + key.signed_at) % BloomBits,
      (2 * AgentIx(key.agent) + 3 * key.signed_at) % BloomBits }

\* the filter a peer builds by inserting keys: the union of their bits
BloomOf(keys) == UNION {BloomHashes(k) : k \in keys}

\* BloomFilter::check
BloomCheck(bloom, key) == BloomHashes(key) \subseteq bloom

----------------------------------------------------------------------------
\* incoming_agents

\* store::agent_info_within_arc_set: the records of the peer store whose
\* agent lies in the arc set
AgentInfoWithinArcSet(store, arc_set) ==
    {[agent |-> a, signed_at |-> store[a]] :
        a \in {x \in PeerAgents : store[x] # 0 /\ AgentLoc(x) \in arc_set}}

\* lines 26-37: keep the records whose key the remote bloom does not hold
MissingFilterPositive(infos, remote_bloom) ==
    {info \in infos : BloomCheck(remote_bloom, info)}

MissingFilter(infos, remote_bloom) ==
    {info \in infos : ~BloomCheck(remote_bloom, info)}

\* lines 40-46: the messages returned for the missing records
AgentsReplyAlways(missing) ==
    IF missing # {}
    THEN << [kind |-> "MissingAgents", agents |-> missing] >>
    ELSE << [kind |-> "NoAgents", agents |-> {}] >>

AgentsReply(missing) ==
    IF missing # {}
    THEN << [kind |-> "MissingAgents", agents |-> missing] >>
    ELSE << >>

\* lines 12-28: unpack the round state, pick any local agent under the lock;
\* without one return NoAgents, else query the store
AgentsStart(k, common_arc_set, keys) ==
    /\ agt[k].pc = "new"
    /\ lock = "free"
    /\ lock' = ShareMut(<<"agents", k>>)
    /\ IF local_agents = {}
       THEN agt' = [agt EXCEPT ![k] = [@ EXCEPT !.pc = "done", !.result = "Ok",
                                          !.common_arc_set = common_arc_set,
                                          !.remote_bloom = BloomOf(keys),
                                          !.inserted = keys,
                                          !.reply = << [kind |-> "NoAgents", agents |-> {}] >>]]
       ELSE \E agent \in local_agents :
              agt' = [agt EXCEPT ![k] = [@ EXCEPT !.pc = "query", !.had_agent = TRUE,
                                            !.common_arc_set = common_arc_set,
                                            !.remote_bloom = BloomOf(keys),
                                            !.inserted = keys]]
    /\ UNCHANGED <<local_agents, agent_store, acceptVars, gossipVars, missingVars, restVars>>

\* lines 26-47: the store answers; filter against the bloom and reply
AgentsQueryOk(k) ==
    /\ agt[k].pc = "query"
    /\ LET infos == AgentInfoWithinArcSet(agent_store, agt[k].common_arc_set)
           missing == MissingFilter(infos, agt[k].remote_bloom)
       IN agt' = [agt EXCEPT ![k] = [@ EXCEPT !.pc = "done", !.result = "Ok",
                                        !.infos = infos,
                                        !.reply = AgentsReply(missing)]]
    /\ UNCHANGED <<local_agents, agent_store, acceptVars, gossipVars, lock, missingVars, restVars>>

\* line 29: the store query fails and `?` returns the error
AgentsQueryErr(k) ==
    /\ agt[k].pc = "query"
    /\ agt' = [agt EXCEPT ![k] = [@ EXCEPT !.pc = "done", !.result = "Err"]]
    /\ UNCHANGED <<local_agents, agent_store, acceptVars, gossipVars, lock, missingVars, restVars>>

InitAgents ==
    /\ local_agents = {}
    /\ agent_store \in [PeerAgents -> 0..MaxSignedAt]
    /\ agt = [k \in 1..MaxAgentsCalls |-> NoAgentsTask]
    \* the other parts are idle
    /\ state_map = {}
    /\ outgoing = <<>>
    /\ gossip_type = "Recent"
    /\ now = 1
    /\ acc = [h \in 1..MaxAccepts |-> NoTask]
    /\ pending_gossip_list = <<>>
    /\ gl = NoLoop
    /\ entry_store = [a \in GAgents |-> {}]
    /\ info_store = [a \in GAgents |-> 0]
    /\ calls = {}
    /\ last = NoExchange
    /\ lock = "free"
    /\ mis = [m \in 1..MaxMissing |-> NoMissingTask]
    /\ sig = NoSignal
    /\ sends = <<>>
    /\ db = NoDb
    /\ wf = NoRun
    /\ conv = NoConv
    /\ bun = NoBundle
    /\ ENVIRONMENTS = {}
    /\ dirs = {}
    /\ init_log = <<>>
    /\ env_calls = <<>>
    /\ chain = NoChain
    /\ cel = [t \in 1..MaxCellCalls |-> NoCellTask]
    /\ cells = {}
    /\ invokes = <<>>

NextAgents ==
    \/ \E k \in 1..MaxAgentsCalls, arc \in SUBSET Points, keys \in SUBSET AgentKeys :
          AgentsStart(k, arc, keys)
    \/ \E k \in 1..MaxAgentsCalls : AgentsQueryOk(k)
    \/ \E k \in 1..MaxAgentsCalls : AgentsQueryErr(k)
    \/ \E a \in Agents : LocalAgentJoin(a)
    \/ \E a \in Agents : LocalAgentLeave(a)

SpecAgents == InitAgents /\ [][NextAgents]_vars

----------------------------------------------------------------------------
\* Claims about incoming_agents.

\* C4: the MissingAgents message holds exactly the local agent-info records
\* inside the round's common arc set whose (agent, signed_at) key tests
\* negative against the remote bloom; no record whose key the peer inserted
\* into its filter is sent.
C4_MissingAreTheNegatives ==
    \A k \in 1..MaxAgentsCalls :
        (agt[k].pc = "done" /\ agt[k].result = "Ok") =>
            LET eligible == AgentInfoWithinArcSet(agent_store, agt[k].common_arc_set)
                negative == {r \in eligible : ~BloomCheck(agt[k].remote_bloom, r)}
                sent == UNION {m.agents : m \in {agt[k].reply[i] : i \in 1..Len(agt[k].reply)}}
            IN /\ agt[k].had_agent => sent = negative
               /\ \A r \in sent : r \notin agt[k].inserted
               /\ \A i \in 1..Len(agt[k].reply) :
                     agt[k].reply[i].kind = "MissingAgents" => agt[k].reply[i].agents = negative

\* a MissingAgents message was sent while another eligible record, whose key
\* the peer had inserted, was held back
C4_Witness ==
    \E k \in 1..MaxAgentsCalls :
        /\ agt[k].pc = "done" /\ agt[k].result = "Ok"
        /\ Len(agt[k].reply) = 1
        /\ agt[k].reply[1].kind = "MissingAgents"
        /\ \E r \in agt[k].infos : r \in agt[k].inserted /\ r \notin agt[k].reply[1].agents

\* C5 as claimed: every incoming agent bloom is answered, with NoAgents when
\* there is nothing to reconcile and with MissingAgents otherwise.
C5_EveryBloomAnswered ==
    \A k \in 1..MaxAgentsCalls :
        (agt[k].pc = "done" /\ agt[k].result = "Ok") =>
            /\ Len(agt[k].reply) = 1
            /\ agt[k].reply[1].kind \in {"NoAgents", "MissingAgents"}

\* C5 amended: NoAgents is the reply when no local agent is joined;
\* MissingAgents is the reply when a local agent is joined and some eligible
\* record tests negative; when a local agent is joined and no eligible record
\* tests negative, nothing is replied.
C5_ReplyByCase ==
    \A k \in 1..MaxAgentsCalls :
        (agt[k].pc = "done" /\ agt[k].result = "Ok") =>
            LET negative == {r \in AgentInfoWithinArcSet(agent_store, agt[k].common_arc_set) :
                                ~BloomCheck(agt[k].remote_bloom, r)}
            IN /\ ~agt[k].had_agent =>
                     agt[k].reply = << [kind |-> "NoAgents", agents |-> {}] >>
               /\ (agt[k].had_agent /\ negative # {}) =>
                     agt[k].reply = << [kind |-> "MissingAgents", agents |-> negative] >>
               /\ (agt[k].had_agent /\ negative = {}) => agt[k].reply = << >>

\* a call with a local agent joined and eligible records, all of which test
\* positive, has returned without a reply
C5_Witness ==
    \E k \in 1..MaxAgentsCalls :
        /\ agt[k].pc = "done" /\ agt[k].result = "Ok"
        /\ agt[k].had_agent
        /\ agt[k].infos # {}
        /\ agt[k].reply = << >>

----------------------------------------------------------------------------
\* The kitsune-direct event handlers and the stores behind them.

Contents == 1..MaxOps

\* the hash of an entry
OpHash(c) == <<"hash", c>>

\* KdEntry::as_wire_data_ref: the bytes of an entry
WireOf(c) == [kind |-> "entry", content |-> c]

\* bytes that are no entry
Garbage == [kind |-> "garbage", content |-> 0]

WireData == {WireOf(c) : c \in Contents} \cup {Garbage}

\* KdEntrySigned::from_wire: decode the bytes, or fail
FromWire(data) ==
    IF data.kind = "entry"
    THEN [ok |-> TRUE, content |-> data.content]
    ELSE [ok |-> FALSE, content |-> 0]

\* handle_gossip that stores whatever decodes
HandleGossipUnchecked(store, op_hash, op_data) ==
    LET e == FromWire(op_data)
    IN IF ~e.ok
       THEN [result |-> "Err", store |-> store]
       ELSE [result |-> "Ok", store |-> store \cup {e.content}]

\* handle_gossip that stores before it compares
HandleGossipStoreFirst(store, op_hash, op_data) ==
    LET e == FromWire(op_data)
    IN IF ~e.ok
       THEN [result |-> "Err", store |-> store]
       ELSE IF op_hash # OpHash(e.content)
            THEN [result |-> "Err", store |-> store \cup {e.content}]
            ELSE [result |-> "Ok", store |-> store \cup {e.content}]

\* handle_gossip: decode, compare the entry's hash with the given op_hash,
\* and only then store_entry
HandleGossip(store, op_hash, op_data) ==
    LET e == FromWire(op_data)
    IN IF ~e.ok
       THEN [result |-> "Err", store |-> store]
       ELSE IF op_hash # OpHash(e.content)
            THEN [result |-> "Err", store |-> store]
            ELSE [result |-> "Ok", store |-> store \cup {e.content}]

\* handle_fetch_op_hashes_for_constraints: the hashes of the entries held
FetchOpHashes(store) == {OpHash(c) : c \in store}

\* handle_fetch_op_hash_data: (hash, bytes) of each requested hash that is held
FetchOpHashData(store, op_hashes) ==
    {[hash |-> OpHash(c), data |-> WireOf(c)] : c \in {x \in store : OpHash(x) \in op_hashes}}

\* what a bad peer may answer instead: one item with other bytes
Corruptions(honest) ==
    UNION {{(honest \ {i}) \cup {[hash |-> i.hash, data |-> d]} : d \in WireData \ {i.data}} :
             i \in honest}

\* persist.store_agent_info: the newer record of an agent wins, an older or
\* equal one changes nothing
StoreAgentInfo(held, signed_at) == IF signed_at > held THEN signed_at ELSE held

\* handle_put_agent_info_signed
HandlePutAgentInfoSigned(held, info) == StoreAgentInfo(held, info.signed_at)

\* the (agent, signed_at) keys of the agent-info a node holds
AgentInfoKeys(held) == IF held = 0 THEN {} ELSE {<<Subject, held>>}

\* the agent-info records a node returns for the requested agents
FetchAgentInfo(held, agents) ==
    IF held # 0 /\ Subject \in agents THEN {[agent |-> Subject, signed_at |-> held]} ELSE {}

\* gossip_ops at the receiving agent: one handle_gossip per op, a failed one is
\* dropped and the others go on; one handle_put_agent_info_signed per record
RECURSIVE DeliverOps(_, _)
DeliverOps(store, items) ==
    IF items = {}
    THEN [store |-> store, calls |-> {}]
    ELSE LET i == CHOOSE x \in items : TRUE
             r == HandleGossip(store, i.hash, i.data)
             rest == DeliverOps(r.store, items \ {i})
         IN [store |-> rest.store,
             calls |-> rest.calls \cup {[op_hash |-> i.hash, op_data |-> i.data,
                                        result |-> r.result,
                                        before |-> store, after |-> r.store]}]

RECURSIVE DeliverPeers(_, _)
DeliverPeers(held, peers) ==
    IF peers = {}
    THEN held
    ELSE LET i == CHOOSE x \in peers : TRUE
         IN DeliverPeers(HandlePutAgentInfoSigned(held, i), peers \ {i})

----------------------------------------------------------------------------
\* The gossip loop: gossip_loop, take_action, fetch_pending_gossip_list and
\* process_next_gossip.

\* what list_neighbor_agents may answer: (local agents, remote agents); the
\* two lists are independent vectors, the last answer names one agent in both
NeighborAnswers ==
    { << <<>>, <<>> >>,
      << <<"A">>, <<"B">> >>,
      << <<"A", "B">>, <<>> >>,
      << <<"A">>, <<"B", "C">> >>,
      << <<"A">>, <<"A">> >> }

NotSelf(pair) == pair[1] # pair[2]

\* the pairs pushed for the local agent at index i: every later local agent
\* that differs from it, then every remote agent
PairsOf(local, remote, i) ==
    SelectSeq([j \in 1..(Len(local) - i + 1) |-> <<local[i], local[i + j - 1]>>], NotSelf)
    \o [j \in 1..Len(remote) |-> <<local[i], remote[j]>>]

RECURSIVE AllPairs(_, _, _)
AllPairs(local, remote, i) ==
    IF i > Len(local)
    THEN <<>>
    ELSE PairsOf(local, remote, i) \o AllPairs(local, remote, i + 1)

\* the hashes one side holds and the other lacks, taken the wrong way round
OpDifferenceSwapped(has, lacks) == lacks \ has

\* HashSet::difference on op hashes
OpDifference(has, lacks) == has \ lacks

\* the agents one side holds, compared by agent alone
AgentDifferenceByAgent(has, lacks) ==
    {k[1] : k \in {x \in has : \A y \in lacks : y[1] # x[1]}}

\* HashSet::difference on (agent, signed_at) keys, mapped to the agent
AgentDifference(has, lacks) == {k[1] : k \in has \ lacks}

\* a loop that calls take_action again without the delay
NotSleeping == [NoLoop EXCEPT !.pc = "tick"]

\* the loop between two calls of take_action, its locals dropped
Sleeping == [NoLoop EXCEPT !.pc = "sleep"]

\* `expect("Gossip loop has failed")`: the task of the loop is gone
Panicked == [NoLoop EXCEPT !.pc = "panicked"]

\* lines 209-240: after the direction towards to_agent, the direction towards
\* from_agent if it needs anything, else return Ok
AfterTo(g) ==
    IF g.from_needs # {} \/ g.from_needs_agents # {}
    THEN [g EXCEPT !.pc = "data", !.dir = "from", !.r_ops = {}, !.r_peers = {}]
    ELSE Sleeping

\* after the op hashes the direction towards to_agent is always taken
AfterHashesAlwaysAsks(g) ==
    [g EXCEPT !.pc = "data", !.dir = "to", !.r_ops = {}, !.r_peers = {}]

\* lines 178-240: after the op hashes, the direction towards to_agent if it
\* needs anything
AfterHashes(g) ==
    IF g.to_needs # {} \/ g.to_needs_agents # {}
    THEN [g EXCEPT !.pc = "data", !.dir = "to", !.r_ops = {}, !.r_peers = {}]
    ELSE AfterTo(g)

AfterDirection(g) == IF g.dir = "to" THEN AfterTo(g) ELSE Sleeping

\* the agent asked for data, and the agent the data is delivered to
Responder(g) == IF g.dir = "to" THEN g.from_agent ELSE g.to_agent
Receiver(g) == IF g.dir = "to" THEN g.to_agent ELSE g.from_agent
Wanted(g) == IF g.dir = "to" THEN g.to_needs ELSE g.from_needs
WantedAgents(g) == IF g.dir = "to" THEN g.to_needs_agents ELSE g.from_needs_agents

\* what req_op_data may answer: the data held, the answer of a bad peer, or
\* no op data at all
OpDataAnswers ==
    LET honest == FetchOpHashData(entry_store[Responder(gl)], Wanted(gl))
    IN {honest} \cup Corruptions(honest) \cup {{}}

\* take_action with an empty pending list: fetch_pending_gossip_list asks for
\* the neighbor agents
FetchPendingGossipList ==
    /\ gl.pc = "tick"
    /\ pending_gossip_list = <<>>
    /\ gl' = [gl EXCEPT !.pc = "list"]
    /\ UNCHANGED <<pending_gossip_list, entry_store, info_store, calls, last>>
    /\ UNCHANGED <<local_agents, acceptVars, agentsVars, lock, missingVars, restVars>>

\* lines 87-101: the answer arrives and the pairs are pushed
ListNeighborAgentsOk(answer) ==
    /\ gl.pc = "list"
    /\ pending_gossip_list' = pending_gossip_list \o AllPairs(answer[1], answer[2], 1)
    /\ gl' = Sleeping
    /\ UNCHANGED <<entry_store, info_store, calls, last>>
    /\ UNCHANGED <<local_agents, acceptVars, agentsVars, lock, missingVars, restVars>>

\* line 87: the request fails, take_action returns the error, the loop panics
ListNeighborAgentsErr ==
    /\ gl.pc = "list"
    /\ gl' = Panicked
    /\ UNCHANGED <<pending_gossip_list, entry_store, info_store, calls, last>>
    /\ UNCHANGED <<local_agents, acceptVars, agentsVars, lock, missingVars, restVars>>

\* a loop that takes the next pair while the hashes of the current one are awaited
ProcessNextGossipWhileAwaiting ==
    /\ gl.pc \in {"tick", "hashes_to"}
    /\ pending_gossip_list # <<>>
    /\ pending_gossip_list' = Tail(pending_gossip_list)
    /\ gl' = [NoLoop EXCEPT !.pc = "hashes_from",
                            !.from_agent = Head(pending_gossip_list)[1],
                            !.to_agent = Head(pending_gossip_list)[2]]
    /\ last' = [NoExchange EXCEPT !.from = Head(pending_gossip_list)[1],
                                  !.to = Head(pending_gossip_list)[2],
                                  !.clean = TRUE]
    /\ UNCHANGED <<entry_store, info_store, calls>>
    /\ UNCHANGED <<local_agents, acceptVars, agentsVars, lock, missingVars, restVars>>

\* a process_next_gossip that takes the pair pushed last
ProcessNextGossipFromBack ==
    /\ gl.pc = "tick"
    /\ pending_gossip_list # <<>>
    /\ LET n == Len(pending_gossip_list)
       IN /\ pending_gossip_list' = SubSeq(pending_gossip_list, 1, n - 1)
          /\ gl' = [NoLoop EXCEPT !.pc = "hashes_from",
                                  !.from_agent = pending_gossip_list[n][1],
                                  !.to_agent = pending_gossip_list[n][2]]
          /\ last' = [NoExchange EXCEPT !.from = pending_gossip_list[n][1],
                                        !.to = pending_gossip_list[n][2],
                                        !.clean = TRUE]
    /\ UNCHANGED <<entry_store, info_store, calls>>
    /\ UNCHANGED <<local_agents, acceptVars, agentsVars, lock, missingVars, restVars>>

\* take_action with a pending pair: process_next_gossip removes the head and
\* asks from_agent for its op hashes (lines 107-124)
ProcessNextGossip ==
    /\ gl.pc = "tick"
    /\ pending_gossip_list # <<>>
    /\ pending_gossip_list' = Tail(pending_gossip_list)
    /\ gl' = [NoLoop EXCEPT !.pc = "hashes_from",
                            !.from_agent = Head(pending_gossip_list)[1],
                            !.to_agent = Head(pending_gossip_list)[2]]
    /\ last' = [NoExchange EXCEPT !.from = Head(pending_gossip_list)[1],
                                  !.to = Head(pending_gossip_list)[2],
                                  !.clean = TRUE]
    /\ UNCHANGED <<entry_store, info_store, calls>>
    /\ UNCHANGED <<local_agents, acceptVars, agentsVars, lock, missingVars, restVars>>

\* lines 115-141: from_agent's hashes arrive, to_agent is asked for its own
ReqOpHashesFromOk ==
    /\ gl.pc = "hashes_from"
    /\ gl' = [gl EXCEPT !.pc = "hashes_to",
                        !.op_hashes_from = FetchOpHashes(entry_store[gl.from_agent]),
                        !.agent_info_from = AgentInfoKeys(info_store[gl.from_agent])]
    /\ last' = [last EXCEPT !.reported_from = FetchOpHashes(entry_store[gl.from_agent]),
                            !.info_from = AgentInfoKeys(info_store[gl.from_agent])]
    /\ UNCHANGED <<pending_gossip_list, entry_store, info_store, calls>>
    /\ UNCHANGED <<local_agents, acceptVars, agentsVars, lock, missingVars, restVars>>

\* lines 132-176: to_agent's hashes arrive and the four differences are taken
ReqOpHashesToOk ==
    /\ gl.pc = "hashes_to"
    /\ LET op_hashes_to == FetchOpHashes(entry_store[gl.to_agent])
           agent_info_to == AgentInfoKeys(info_store[gl.to_agent])
           g == [gl EXCEPT
                   !.from_needs = OpDifference(op_hashes_to, gl.op_hashes_from),
                   !.from_needs_agents = AgentDifference(agent_info_to, gl.agent_info_from),
                   !.to_needs = OpDifference(gl.op_hashes_from, op_hashes_to),
                   !.to_needs_agents = AgentDifference(gl.agent_info_from, agent_info_to)]
       IN /\ gl' = AfterHashes(g)
          /\ last' = [last EXCEPT !.reported_to = op_hashes_to,
                                  !.info_to = agent_info_to,
                                  !.asked_from = g.to_needs,
                                  !.asked_to = g.from_needs,
                                  !.listed_from = g.from_needs_agents,
                                  !.listed_to = g.to_needs_agents,
                                  !.complete = (AfterHashes(g).pc = "sleep")]
    /\ UNCHANGED <<pending_gossip_list, entry_store, info_store, calls>>
    /\ UNCHANGED <<local_agents, acceptVars, agentsVars, lock, missingVars, restVars>>

\* lines 124 and 141: a req_op_hashes fails, `?` returns the error out of
\* take_action and the loop panics
ReqOpHashesErr ==
    /\ gl.pc \in {"hashes_from", "hashes_to"}
    /\ gl' = Panicked
    /\ last' = [last EXCEPT !.clean = FALSE]
    /\ UNCHANGED <<pending_gossip_list, entry_store, info_store, calls>>
    /\ UNCHANGED <<local_agents, acceptVars, agentsVars, lock, missingVars, restVars>>

\* lines 180-190 and 211-221: req_op_data answers with the op data and the
\* agent-info; gossip_ops follows unless both are empty
ReqOpDataOk(r_ops) ==
    /\ gl.pc = "data"
    /\ LET honest == FetchOpHashData(entry_store[Responder(gl)], Wanted(gl))
           r_peers == FetchAgentInfo(info_store[Responder(gl)], WantedAgents(gl))
       IN /\ gl' = IF r_ops # {} \/ r_peers # {}
                   THEN [gl EXCEPT !.pc = "send", !.r_ops = r_ops, !.r_peers = r_peers]
                   ELSE AfterDirection(gl)
          /\ last' = [last EXCEPT
                        !.clean = @ /\ r_ops = honest,
                        !.complete = ~(r_ops # {} \/ r_peers # {})
                                        /\ AfterDirection(gl).pc = "sleep"]
    /\ UNCHANGED <<pending_gossip_list, entry_store, info_store, calls>>
    /\ UNCHANGED <<local_agents, acceptVars, agentsVars, lock, missingVars, restVars>>

\* req_op_data whose error is returned with `?`
ReqOpDataErrReturned ==
    /\ gl.pc = "data"
    /\ gl' = Panicked
    /\ last' = [last EXCEPT !.clean = FALSE]
    /\ UNCHANGED <<pending_gossip_list, entry_store, info_store, calls>>
    /\ UNCHANGED <<local_agents, acceptVars, agentsVars, lock, missingVars, restVars>>

\* lines 180 and 211: req_op_data fails: `if let Ok` skips the direction
ReqOpDataErr ==
    /\ gl.pc = "data"
    /\ gl' = AfterDirection(gl)
    /\ last' = [last EXCEPT !.clean = FALSE,
                            !.complete = (AfterDirection(gl).pc = "sleep")]
    /\ UNCHANGED <<pending_gossip_list, entry_store, info_store, calls>>
    /\ UNCHANGED <<local_agents, acceptVars, agentsVars, lock, missingVars, restVars>>

\* lines 191-199 and 222-230: gossip_ops reaches the receiving agent, whose
\* handlers store what they accept
GossipOpsOk ==
    /\ gl.pc = "send"
    /\ LET to == Receiver(gl)
           d == DeliverOps(entry_store[to], gl.r_ops)
       IN /\ entry_store' = [entry_store EXCEPT ![to] = d.store]
          /\ info_store' = [info_store EXCEPT ![to] = DeliverPeers(@, gl.r_peers)]
          /\ calls' = d.calls
          /\ last' = [last EXCEPT
                        !.clean = @ /\ \A c \in d.calls : c.result = "Ok",
                        !.sent_to = IF gl.dir = "to" THEN {i.hash : i \in gl.r_ops} ELSE @,
                        !.sent_from = IF gl.dir = "from" THEN {i.hash : i \in gl.r_ops} ELSE @,
                        !.complete = (AfterDirection(gl).pc = "sleep")]
    /\ gl' = AfterDirection(gl)
    /\ UNCHANGED pending_gossip_list
    /\ UNCHANGED <<local_agents, acceptVars, agentsVars, lock, missingVars, restVars>>

\* lines 200-204 and 231-235: gossip_ops fails: the error is logged
GossipOpsErr ==
    /\ gl.pc = "send"
    /\ gl' = AfterDirection(gl)
    /\ calls' = {}
    /\ last' = [last EXCEPT !.clean = FALSE,
                            !.complete = (AfterDirection(gl).pc = "sleep")]
    /\ UNCHANGED <<pending_gossip_list, entry_store, info_store>>
    /\ UNCHANGED <<local_agents, acceptVars, agentsVars, lock, missingVars, restVars>>

\* line 60: delay_for(10 ms) ends and the loop calls take_action again
Wake ==
    /\ gl.pc = "sleep"
    /\ gl' = [gl EXCEPT !.pc = "tick"]
    /\ UNCHANGED <<pending_gossip_list, entry_store, info_store, calls, last>>
    /\ UNCHANGED <<local_agents, acceptVars, agentsVars, lock, missingVars, restVars>>

InitGossip ==
    /\ pending_gossip_list = <<>>
    /\ gl = NoLoop
    /\ entry_store \in {f \in [GAgents -> SUBSET Contents] : f["C"] = {}}
    \* the subject holds a record of itself
    /\ info_store \in {f \in [GAgents -> 0..MaxSignedAt] : f["C"] = 0 /\ f[Subject] # 0}
    /\ calls = {}
    /\ last = NoExchange
    \* the other parts are idle
    /\ local_agents = {}
    /\ state_map = {}
    /\ outgoing = <<>>
    /\ gossip_type = "Recent"
    /\ now = 1
    /\ acc = [h \in 1..MaxAccepts |-> NoTask]
    /\ agent_store = [a \in PeerAgents |-> 0]
    /\ agt = [k \in 1..MaxAgentsCalls |-> NoAgentsTask]
    /\ lock = "free"
    /\ mis = [m \in 1..MaxMissing |-> NoMissingTask]
    /\ sig = NoSignal
    /\ sends = <<>>
    /\ db = NoDb
    /\ wf = NoRun
    /\ conv = NoConv
    /\ bun = NoBundle
    /\ ENVIRONMENTS = {}
    /\ dirs = {}
    /\ init_log = <<>>
    /\ env_calls = <<>>
    /\ chain = NoChain
    /\ cel = [t \in 1..MaxCellCalls |-> NoCellTask]
    /\ cells = {}
    /\ invokes = <<>>

NextGossip ==
    \/ FetchPendingGossipList
    \/ \E answer \in NeighborAnswers : ListNeighborAgentsOk(answer)
    \/ ListNeighborAgentsErr
    \/ ProcessNextGossip
    \/ ReqOpHashesFromOk
    \/ ReqOpHashesToOk
    \/ ReqOpHashesErr
    \/ \E r_ops \in OpDataAnswers : ReqOpDataOk(r_ops)
    \/ ReqOpDataErr
    \/ GossipOpsOk
    \/ GossipOpsErr
    \/ Wake

SpecGossip == InitGossip /\ [][NextGossip]_vars

----------------------------------------------------------------------------
\* Claims about handle_gossip and the gossip loop.

\* the items of an answer whose bytes decode to an entry of the declared hash
GoodItems(items) ==
    {i \in items : FromWire(i.data).ok /\ OpHash(FromWire(i.data).content) = i.hash}

\* C6: handle_gossip stores an entry only when the hash recomputed from the
\* received bytes equals the op hash it arrived with; on a mismatch, or on
\* bytes that do not decode, it returns an error and leaves the store as it was.
C6_StoredOnlyIfHashMatches ==
    \A c \in calls :
        LET e == FromWire(c.op_data)
            matches == e.ok /\ OpHash(e.content) = c.op_hash
        IN /\ c.result = "Ok" <=> matches
           /\ matches => c.after = c.before \cup {e.content}
           /\ ~matches => c.after = c.before

\* one delivery made a call that stored a new entry and a call that was
\* refused because the bytes decode to an entry of another hash
C6_Witness ==
    /\ \E c \in calls : c.result = "Ok" /\ c.after # c.before
    /\ \E c \in calls : c.result = "Err" /\ FromWire(c.op_data).ok /\ c.after = c.before

C8_ExchangeGivesUnion ==
    (last.complete /\ last.clean /\ last.from # last.to) =>
        /\ FetchOpHashes(entry_store[last.from]) = last.reported_from \cup last.reported_to
        /\ FetchOpHashes(entry_store[last.to]) = last.reported_from \cup last.reported_to
        /\ last.asked_from \subseteq last.reported_from
        /\ last.asked_to \subseteq last.reported_to
        /\ last.sent_to \subseteq last.reported_from \ last.reported_to
        /\ last.sent_from \subseteq last.reported_to \ last.reported_from
        /\ last.sent_to = last.reported_from \ last.reported_to
        /\ last.sent_from = last.reported_to \ last.reported_from

\* an exchange in which each side held an op the other lacked has completed,
\* and both stores now hold both
C8_Witness ==
    /\ last.complete /\ last.clean /\ last.from # last.to
    /\ last.sent_to # {}
    /\ last.sent_from # {}
    /\ FetchOpHashes(entry_store[last.from]) = last.reported_from \cup last.reported_to
    /\ FetchOpHashes(entry_store[last.to]) = last.reported_from \cup last.reported_to

\* the signing times of the subject's record on the two sides of the exchange
SignedAtOf(keys) == {k[2] : k \in keys}

C10_LoopSurvivesRequestError ==
    gl.pc = "panicked" => pending_gossip_list = <<>>

----------------------------------------------------------------------------
\* The gossip loop under fair scheduling.

\* a peer that never answers a request
SilentPeer == "B"

\* the positions at which the loop awaits the answer of an agent's node
AwaitingPcs == {"hashes_from", "hashes_to", "data", "send"}

\* the agent whose node the awaited request was sent to
AwaitedPeer(g) ==
    IF g.pc = "hashes_from" THEN g.from_agent
    ELSE IF g.pc = "hashes_to" THEN g.to_agent
    ELSE IF g.pc = "data" THEN Responder(g)
    ELSE Receiver(g)

\* a step of the loop other than the answer of the silent peer
AnsweredStep ==
    /\ NextGossip
    /\ ~(gl.pc \in AwaitingPcs /\ AwaitedPeer(gl) = SilentPeer)

\* the runtime keeps polling the task of the loop, the timer of delay_for
\* fires, and every node but the silent peer's answers
SpecGossipFair == SpecGossip /\ WF_vars(AnsweredStep)

\* C11: a peer that never answers does not block gossip with the other peers:
\* whenever pairs are pending, the pending list is eventually worked off
\* (unless the loop has failed), also when a request made for one pair never
\* completes.
C11_SilentPeerDoesNotBlock ==
    (pending_gossip_list # <<>> /\ gl.pc # "panicked")
        ~> (pending_gossip_list = <<>> \/ gl.pc = "panicked")

\* C13: when the gossip loop has failed with a fatal error, a gossip loop is
\* eventually running again.
C13_LoopIsRecreated ==
    (gl.pc = "panicked") ~> (gl.pc # "panicked")

\* C27: the pending list is a first-in first-out queue consumed one pair per
\* tick: peer discovery is started, and the list refilled, only when the list
\* is empty; otherwise take_action removes exactly the head pair and that is
\* the pair it processes. Hence the pairs of one discovery are each taken
\* once, in the order they were pushed, before the next discovery.
C27_PendingListIsFifo ==
    [][/\ (gl.pc = "tick" /\ gl'.pc = "list") => pending_gossip_list = <<>>
       /\ (gl.pc = "list" /\ gl'.pc # "list") => pending_gossip_list = <<>>
       /\ (gl.pc = "tick" /\ gl'.pc # "tick" /\ pending_gossip_list # <<>>) =>
             /\ pending_gossip_list' = Tail(pending_gossip_list)
             /\ gl'.pc = "hashes_from"
             /\ <<gl'.from_agent, gl'.to_agent>> = Head(pending_gossip_list)
       /\ (pending_gossip_list' # pending_gossip_list) =>
             \/ gl.pc = "list"
             \/ (gl.pc = "tick" /\ pending_gossip_list # <<>>)]_vars

\* the second pair of a discovery is taken, after the first, and is the last
C27_Witness ==
    /\ gl.pc = "hashes_from"
    /\ gl.from_agent = "A"
    /\ gl.to_agent = "C"
    /\ pending_gossip_list = <<>>
    /\ \E c \in calls : TRUE

\* C28: an agent never gossips with itself: the pending list holds no pair
\* of one agent with itself, whatever lists list_neighbor_agents returned.
C28_NoSelfPair ==
    \A i \in 1..Len(pending_gossip_list) :
        pending_gossip_list[i][1] # pending_gossip_list[i][2]

\* C31: an exchange between two agents that hold the same op hashes and the
\* same agent-info keys transfers nothing: after both reports the loop goes
\* to sleep without any req_op_data or gossip_ops and no store changes; and
\* in any exchange gossip_ops is sent for a direction only if the op data or
\* the agent-infos fetched for it are not both empty.
C31_NothingToTransferNothingSent ==
    /\ [](gl.pc = "send" => (gl.r_ops # {} \/ gl.r_peers # {}))
    /\ [][/\ (/\ gl.pc = "hashes_to"
               /\ gl'.pc \notin {"hashes_to", "panicked"}
               /\ FetchOpHashes(entry_store[gl.from_agent])
                     = FetchOpHashes(entry_store[gl.to_agent])
               /\ AgentInfoKeys(info_store[gl.from_agent])
                     = AgentInfoKeys(info_store[gl.to_agent]))
              => /\ gl'.pc = "sleep"
                 /\ last'.complete
                 /\ UNCHANGED <<entry_store, info_store>>
          /\ (gl'.pc = "send" /\ gl.pc # "send") => gl.pc = "data"
          /\ (gl.pc = "data" /\ gl'.pc # "send") => UNCHANGED <<entry_store, info_store>>]_vars

\* two different agents reported the same, non-empty, op hashes and the same
\* agent-info keys, and the exchange is over with nothing asked or sent
C31_Witness ==
    /\ gl.pc = "sleep"
    /\ last.from # last.to
    /\ last.complete
    /\ last.reported_from # {}
    /\ last.reported_from = last.reported_to
    /\ last.info_from = last.info_to
    /\ last.asked_from = {} /\ last.asked_to = {}
    /\ last.sent_from = {} /\ last.sent_to = {}

\* C14: exchanges are never processed in parallel: a pair is taken from the
\* pending list only by a loop that awaits nothing, after every request of the
\* pair before it has completed.
C14_OnePairAtATime ==
    [][(pending_gossip_list # <<>> /\ pending_gossip_list' = Tail(pending_gossip_list)) =>
          /\ gl.pc = "tick"
          /\ gl'.pc = "hashes_from"
          /\ (last = NoExchange \/ last.complete)]_vars

\* a request of the current pair is awaited while another pair is pending
C14_Witness ==
    /\ gl.pc \in {"hashes_to", "data", "send"}
    /\ pending_gossip_list # <<>>
    /\ ~last.complete

\* C15: each iteration of the loop performs exactly one action, the refill of
\* the pending list or the processing of one pair, and then sleeps: take_action
\* is entered only after a sleep, and what it started ends in the sleep.
C15_SleepBetweenActions ==
    [][/\ (gl'.pc = "tick" /\ gl.pc # "tick") => gl.pc = "sleep"
       /\ (gl.pc = "tick" /\ gl'.pc # "tick") => gl'.pc \in {"list", "hashes_from"}
       /\ (gl.pc \in (AwaitingPcs \cup {"list"}) /\ gl'.pc \notin (AwaitingPcs \cup {"list"}))
             => gl'.pc \in {"sleep", "panicked"}
       /\ (pending_gossip_list' # pending_gossip_list) =>
             \/ (gl.pc = "tick" /\ pending_gossip_list' = Tail(pending_gossip_list))
             \/ (gl.pc = "list" /\ gl'.pc = "sleep")]_vars

\* the loop sleeps after a completed exchange, with pairs still pending
C15_Witness ==
    /\ gl.pc = "sleep"
    /\ last.complete
    /\ pending_gossip_list # <<>>

\* C18: a failure of req_op_data or of gossip_ops in one direction of an
\* exchange is not surfaced: nothing is stored and no pair is lost, the opposite
\* direction is still attempted when it has something to fetch, otherwise
\* process_next_gossip returns Ok and the loop sleeps before the next pair.
C18_DirectionFailureIsSwallowed ==
    [][(ReqOpDataErr \/ GossipOpsErr) =>
          /\ gl'.pc # "panicked"
          /\ UNCHANGED <<pending_gossip_list, entry_store, info_store>>
          /\ IF gl.dir = "to" /\ (gl.from_needs # {} \/ gl.from_needs_agents # {})
             THEN gl'.pc = "data" /\ gl'.dir = "from"
             ELSE gl'.pc = "sleep"]_vars

\* an exchange has completed in which the direction towards to_agent failed,
\* the opposite direction delivered its ops, and another pair is pending
C18_Witness ==
    /\ last.complete /\ ~last.clean
    /\ gl.pc = "sleep"
    /\ last.asked_from # {} /\ last.sent_to = {}
    /\ last.sent_from # {}
    /\ pending_gossip_list # <<>>

----------------------------------------------------------------------------
\* incoming_missing_agents, and the sharded handlers running together.

\* the agent-info records a MissingAgents message may carry
MissingPayloads == {{[agent |-> "r1", signed_at |-> t]} : t \in 1..MaxSignedAt}

\* store::agents_within_arcset: the agents whose arc meets the arc set
AgentsWithinArcset(arc_set) == {a \in Agents : AgentArc(a) \cap arc_set # {}}

\* store::put_agent_info: the records are put for each of the given local
\* agents; the newer record of an agent wins
PutAgentInfo(store, within, agents) ==
    IF within = {}
    THEN store
    ELSE [a \in PeerAgents |->
            LET given == {i.signed_at : i \in {x \in agents : x.agent = a}}
            IN IF given # {} /\ (CHOOSE t \in given : \A u \in given : t >= u) > store[a]
               THEN CHOOSE t \in given : \A u \in given : t >= u
               ELSE store[a]]

\* a missing-agents task that returned: its locals are dropped
MissingReturned(result) == [NoMissingTask EXCEPT !.pc = "done", !.result = result]

\* the caller hands over the RoundState state_map holds for the peer; lines
\* 59-73: pick any local agent and copy local_agents under the lock; without
\* an agent return Ok, else ask the store for the agents within the arc set
MissingStart(m, cert, agents) ==
    /\ mis[m].pc = "new"
    /\ lock = "free"
    /\ lock' = ShareMut(<<"missing", m>>)
    /\ \E e \in state_map :
          /\ e.cert = cert
          /\ IF local_agents = {}
             THEN mis' = [mis EXCEPT ![m] = MissingReturned("Ok")]
             ELSE \E agent \in local_agents :
                    mis' = [mis EXCEPT ![m] = [@ EXCEPT !.pc = "within", !.cert = cert,
                                                  !.state = e.state, !.agents = agents,
                                                  !.local_agents = local_agents]]
    /\ UNCHANGED <<local_agents, acceptVars, agentsVars, gossipVars, restVars>>

\* the store answers and every agent within the arc set is kept
MissingWithinOkAnyAgent(m) ==
    /\ mis[m].pc = "within"
    /\ mis' = [mis EXCEPT ![m] = [@ EXCEPT !.pc = "put",
                  !.within = AgentsWithinArcset(mis[m].state.common_arc_set),
                  !.local_agents = {}]]
    /\ UNCHANGED <<local_agents, acceptVars, agentsVars, gossipVars, lock, restVars>>

\* lines 71-86: the store answers, the local agents among them are kept and
\* put_agent_info is called
MissingWithinOk(m) ==
    /\ mis[m].pc = "within"
    /\ mis' = [mis EXCEPT ![m] = [@ EXCEPT !.pc = "put",
                  !.within = AgentsWithinArcset(mis[m].state.common_arc_set)
                                \cap mis[m].local_agents,
                  !.local_agents = {}]]
    /\ UNCHANGED <<local_agents, acceptVars, agentsVars, gossipVars, lock, restVars>>

\* line 73: the query fails and `?` returns the error
MissingWithinErr(m) ==
    /\ mis[m].pc = "within"
    /\ mis' = [mis EXCEPT ![m] = MissingReturned("Err")]
    /\ UNCHANGED <<local_agents, acceptVars, agentsVars, gossipVars, lock, restVars>>

\* lines 81-89: put_agent_info has written the records
MissingPutOk(m) ==
    /\ mis[m].pc = "put"
    /\ agent_store' = PutAgentInfo(agent_store, mis[m].within, mis[m].agents)
    /\ mis' = [mis EXCEPT ![m] = MissingReturned("Ok")]
    /\ UNCHANGED <<local_agents, agt, acceptVars, gossipVars, lock, restVars>>

\* line 87: put_agent_info fails
MissingPutErr(m) ==
    /\ mis[m].pc = "put"
    /\ mis' = [mis EXCEPT ![m] = MissingReturned("Err")]
    /\ UNCHANGED <<local_agents, acceptVars, agentsVars, gossipVars, lock, restVars>>

\* the connections of the peers of this node
ShardedCons == {"con1", "con3"}

\* the agent bloom and the missing agents a peer sends when the handlers run
\* together
ShardedBlooms == {{[agent |-> "r1", signed_at |-> 1]}}
ShardedPayloads == {{[agent |-> "r1", signed_at |-> 1]}}

\* the round of the first peer: the RoundState of an Accept that the agent a2
\* answered at time 1
FirstRound == GenerateBloomsState(LocalAgentArcs({"a2"}), {1}, 1)

\* the state after a first Accept, on con1, has been committed
InitSharded ==
    /\ local_agents = {"a2"}
    /\ state_map = HashMapInsert({}, PeerCert("con1"), FirstRound)
    /\ outgoing = PushAll(<<>>, PeerCert("con1"), "con1",
                          GenerateBloomsGossip("Recent", FirstRound))
    /\ gossip_type = "Recent"
    /\ now = 1
    /\ acc = [h \in 1..MaxAccepts |-> IF h = 1 THEN Returned("Ok") ELSE NoTask]
    /\ agent_store = [a \in PeerAgents |-> 0]
    /\ agt = [k \in 1..MaxAgentsCalls |-> NoAgentsTask]
    /\ lock = "free"
    /\ mis = [m \in 1..MaxMissing |-> NoMissingTask]
    \* the other parts are idle
    /\ pending_gossip_list = <<>>
    /\ gl = NoLoop
    /\ entry_store = [a \in GAgents |-> {}]
    /\ info_store = [a \in GAgents |-> 0]
    /\ calls = {}
    /\ last = NoExchange
    /\ sig = NoSignal
    /\ sends = <<>>
    /\ db = NoDb
    /\ wf = NoRun
    /\ conv = NoConv
    /\ bun = NoBundle
    /\ ENVIRONMENTS = {}
    /\ dirs = {}
    /\ init_log = <<>>
    /\ env_calls = <<>>
    /\ chain = NoChain
    /\ cel = [t \in 1..MaxCellCalls |-> NoCellTask]
    /\ cells = {}
    /\ invokes = <<>>

\* the three handlers that lock inner, running together
NextSharded ==
    \/ \E h \in 1..MaxAccepts, con \in ShardedCons, ras \in RemoteArcSets :
          AcceptStart(h, con, ras)
    \/ \E h \in 1..MaxAccepts : AcceptLocalArcsOk(h)
    \/ \E h \in 1..MaxAccepts : AcceptLocalArcsErr(h)
    \/ \E h \in 1..MaxAccepts : AcceptBloomsOk(h)
    \/ \E h \in 1..MaxAccepts : AcceptBloomsErr(h)
    \/ \E k \in 1..MaxAgentsCalls, e \in state_map, keys \in ShardedBlooms :
          AgentsStart(k, e.state.common_arc_set, keys)
    \/ \E k \in 1..MaxAgentsCalls : AgentsQueryOk(k)
    \/ \E k \in 1..MaxAgentsCalls : AgentsQueryErr(k)
    \/ \E m \in 1..MaxMissing, cert \in Certs, agents \in ShardedPayloads :
          MissingStart(m, cert, agents)
    \/ \E m \in 1..MaxMissing : MissingWithinOk(m)
    \/ \E m \in 1..MaxMissing : MissingWithinErr(m)
    \/ \E m \in 1..MaxMissing : MissingPutOk(m)
    \/ \E m \in 1..MaxMissing : MissingPutErr(m)
    \/ \E a \in Agents : LocalAgentJoin(a)

SpecSharded == InitSharded /\ [][NextSharded]_vars

\* incoming_missing_agents while Accepts of the peers come in and time passes
NextStale ==
    \/ \E h \in 1..MaxAccepts, con \in ShardedCons, ras \in RemoteArcSets :
          AcceptStart(h, con, ras)
    \/ \E h \in 1..MaxAccepts : AcceptLocalArcsOk(h)
    \/ \E h \in 1..MaxAccepts : AcceptLocalArcsErr(h)
    \/ \E h \in 1..MaxAccepts : AcceptBloomsOk(h)
    \/ \E h \in 1..MaxAccepts : AcceptBloomsErr(h)
    \/ \E m \in 1..MaxMissing, cert \in Certs, agents \in MissingPayloads :
          MissingStart(m, cert, agents)
    \/ \E m \in 1..MaxMissing : MissingWithinOk(m)
    \/ \E m \in 1..MaxMissing : MissingWithinErr(m)
    \/ \E m \in 1..MaxMissing : MissingPutOk(m)
    \/ \E m \in 1..MaxMissing : MissingPutErr(m)
    \/ \E a \in Agents : LocalAgentJoin(a)
    \/ \E a \in Agents : LocalAgentLeave(a)
    \/ Tick

SpecStale == InitSharded /\ [][NextStale]_vars

----------------------------------------------------------------------------
\* Claims about the lock of inner and about stale rounds.

\* the tasks suspended at a storage query or at the bloom generation
SuspendedTasks ==
    {<<"accept", h>> : h \in {x \in 1..MaxAccepts : acc[x].pc \in {"arcs", "blooms"}}}
    \cup {<<"agents", k>> : k \in {x \in 1..MaxAgentsCalls : agt[x].pc = "query"}}
    \cup {<<"missing", m>> : m \in {x \in 1..MaxMissing : mis[x].pc \in {"within", "put"}}}

\* C16: the lock of inner is never held across a suspension point: no task
\* suspended at a storage query or at the bloom generation holds it, the
\* resolution of such an await writes nothing to inner, and the round table and
\* the outgoing queue are written only in the later critical section that
\* commits an Accept, which takes and releases the lock.
C16_LockNotHeldAcrossAwait ==
    /\ [](SuspendedTasks # {} => lock = "free")
    /\ [][/\ (\E h \in 1..MaxAccepts : acc[h].pc = "arcs" /\ acc'[h].pc = "blooms")
               => UNCHANGED <<local_agents, state_map, outgoing>>
          /\ (state_map' # state_map \/ outgoing' # outgoing)
               => /\ \E h \in 1..MaxAccepts : acc[h].pc = "blooms" /\ acc'[h].pc = "done"
                  /\ lock = "free" /\ lock' = "free"]_vars

\* an incoming_accept, an incoming_agents and an incoming_missing_agents are
\* suspended at the same time, and the lock is free
C16_Witness ==
    /\ \E h \in 1..MaxAccepts : acc[h].pc = "blooms"
    /\ \E k \in 1..MaxAgentsCalls : agt[k].pc = "query"
    /\ \E m \in 1..MaxMissing : mis[m].pc = "put"
    /\ lock = "free"

\* incoming_missing_agents racing with incoming_accept while local agents
\* join and leave; the clock stands still
NextMissing ==
    \/ \E h \in 1..MaxAccepts, con \in ShardedCons, ras \in RemoteArcSets :
          AcceptStart(h, con, ras)
    \/ \E h \in 1..MaxAccepts : AcceptLocalArcsOk(h)
    \/ \E h \in 1..MaxAccepts : AcceptLocalArcsErr(h)
    \/ \E h \in 1..MaxAccepts : AcceptBloomsOk(h)
    \/ \E h \in 1..MaxAccepts : AcceptBloomsErr(h)
    \/ \E m \in 1..MaxMissing, cert \in Certs, agents \in MissingPayloads :
          MissingStart(m, cert, agents)
    \/ \E m \in 1..MaxMissing : MissingWithinOk(m)
    \/ \E m \in 1..MaxMissing : MissingWithinErr(m)
    \/ \E m \in 1..MaxMissing : MissingPutOk(m)
    \/ \E m \in 1..MaxMissing : MissingPutErr(m)
    \/ \E a \in Agents : LocalAgentJoin(a)
    \/ \E a \in Agents : LocalAgentLeave(a)

SpecMissing == InitSharded /\ [][NextMissing]_vars

\* C25: incoming_missing_agents asks the store to put the received records
\* only on behalf of agents that are in the local_agents it read and whose
\* arc meets the common arc set of the round; the store is written by that
\* request alone, and a call that finds no local agent returns Ok and stores
\* nothing.
C25_StoredForLocalAgentsWithinArc ==
    [][\A m \in 1..MaxMissing :
         /\ (mis[m].pc = "within" /\ mis'[m].pc = "put") =>
                \A a \in mis'[m].within :
                    /\ a \in mis[m].local_agents
                    /\ AgentArc(a) \cap mis[m].state.common_arc_set # {}
         /\ (mis[m].pc # "put" /\ mis'[m] # mis[m]) => agent_store' = agent_store
         /\ (mis[m].pc = "new" /\ mis'[m] # mis[m] /\ local_agents = {}) =>
                mis'[m] = MissingReturned("Ok")]_vars

\* put_agent_info is about to be called for no agent: the one agent within
\* the common arc set is not local
C25_Witness ==
    \E m \in 1..MaxMissing :
        /\ mis[m].pc = "put"
        /\ mis[m].within = {}
        /\ AgentsWithinArcset(mis[m].state.common_arc_set) # {}
        /\ local_agents # {}

\* C17: the agent-infos of a MissingAgents message are written to the store
\* only if the round they belong to is still the round state_map holds for the
\* peer when the write happens.
C17_StaleMissingAgentsDropped ==
    [][\A m \in 1..MaxMissing :
         (mis[m].pc = "put" /\ mis'[m].pc = "done" /\ agent_store' # agent_store)
            => mis[m].state \in RoundsOf(state_map, mis[m].cert)]_vars

----------------------------------------------------------------------------
\* Round timeouts.

\* the round timeout duration, in clock ticks
RoundTimeout == 1

\* a round is past its deadline
Expired(state, t) == t >= state.started_at + RoundTimeout

\* a reaper that purges the rounds of the first peer only
ReapTimedOutFirstPeerOnly ==
    /\ \E e \in state_map : Expired(e.state, now)
    /\ lock = "free"
    /\ state_map' = {e \in state_map : ~(Expired(e.state, now) /\ e.cert = "certA")}
    /\ UNCHANGED <<local_agents, outgoing, gossip_type, now, acc>>
    /\ UNCHANGED <<agentsVars, gossipVars, lock, missingVars, restVars>>

\* the scheduler tick scans the round table and purges every round past its
\* deadline
ReapTimedOut ==
    /\ \E e \in state_map : Expired(e.state, now)
    /\ lock = "free"
    /\ state_map' = {e \in state_map : ~Expired(e.state, now)}
    /\ UNCHANGED <<local_agents, outgoing, gossip_type, now, acc>>
    /\ UNCHANGED <<agentsVars, gossipVars, lock, missingVars, restVars>>

NextTimeout ==
    \/ \E h \in 1..MaxAccepts, con \in ShardedCons, ras \in RemoteArcSets :
          AcceptStart(h, con, ras)
    \/ \E h \in 1..MaxAccepts : AcceptLocalArcsOk(h)
    \/ \E h \in 1..MaxAccepts : AcceptLocalArcsErr(h)
    \/ \E h \in 1..MaxAccepts : AcceptBloomsOk(h)
    \/ \E h \in 1..MaxAccepts : AcceptBloomsErr(h)
    \/ \E a \in Agents : LocalAgentJoin(a)
    \/ \E a \in Agents : LocalAgentLeave(a)
    \/ Tick
    \/ ReapTimedOut

\* time passes and the scheduler keeps ticking
SpecTimeout ==
    InitSharded /\ [][NextTimeout]_vars /\ WF_vars(Tick) /\ WF_vars(ReapTimedOut)

----------------------------------------------------------------------------
\* The remote_signal host function.

SignalAgents == {"p1", "p2"}
Signals == {"hey", "bye"}
Zomes == {"zome1", "zome2"}

\* the agents a RemoteSignal may list: any list, with repetitions
RECURSIVE AgentLists(_)
AgentLists(n) ==
    IF n = 0
    THEN {<<>>}
    ELSE AgentLists(n - 1)
           \cup {Append(l, a) : l \in {x \in AgentLists(n - 1) : Len(x) = n - 1},
                                a \in SignalAgents}

\* FN_NAME
FnName == "recv_remote_signal"

\* signal.try_into(): the serialized bytes of the signal
SerializedBytesOf(signal) == <<"bytes", signal>>

\* the task spawned for one agent: the arguments of its call_remote
SpawnedCall(agent, zome_name, request) ==
    [agent |-> agent, zome_name |-> zome_name, fn_name |-> FnName, cap |-> "None",
     request |-> request, status |-> "spawned"]

\* lines 24-54: one task is spawned for each listed agent, and the function
\* returns
RemoteSignal(zome, agents, signal) ==
    /\ sig.pc = "idle"
    /\ sends' = [i \in 1..Len(agents) |->
                   SpawnedCall(agents[i], zome, SerializedBytesOf(signal))]
    /\ sig' = [pc |-> "returned", zome |-> zome, agents |-> agents, signal |-> signal,
               converted |-> TRUE, result |-> "Ok"]
    /\ UNCHANGED <<extraVars, local_agents, acceptVars, agentsVars, gossipVars, lock, missingVars,
                   integrateVars>>

\* line 28: the conversion of the signal fails and `?` returns the error
RemoteSignalConvertErr(zome, agents, signal) ==
    /\ sig.pc = "idle"
    /\ sends' = <<>>
    /\ sig' = [pc |-> "returned", zome |-> zome, agents |-> agents, signal |-> signal,
               converted |-> FALSE, result |-> "Err"]
    /\ UNCHANGED <<extraVars, local_agents, acceptVars, agentsVars, gossipVars, lock, missingVars,
                   integrateVars>>

\* a task that calls only after the tasks before it have succeeded
CallRemoteStartInTurn(i) ==
    /\ i \in 1..Len(sends)
    /\ sends[i].status = "spawned"
    /\ \A j \in 1..(i - 1) : sends[j].status = "ok"
    /\ sends' = [sends EXCEPT ![i].status = "calling"]
    /\ UNCHANGED <<extraVars, local_agents, acceptVars, agentsVars, gossipVars, lock, missingVars,
                   sig, integrateVars>>

\* lines 36-40: the runtime runs a spawned task, which calls call_remote
CallRemoteStart(i) ==
    /\ i \in 1..Len(sends)
    /\ sends[i].status = "spawned"
    /\ sends' = [sends EXCEPT ![i].status = "calling"]
    /\ UNCHANGED <<extraVars, local_agents, acceptVars, agentsVars, gossipVars, lock, missingVars,
                   sig, integrateVars>>

\* lines 40-41: call_remote returns Ok
CallRemoteOk(i) ==
    /\ i \in 1..Len(sends)
    /\ sends[i].status = "calling"
    /\ sends' = [sends EXCEPT ![i].status = "ok"]
    /\ UNCHANGED <<extraVars, local_agents, acceptVars, agentsVars, gossipVars, lock, missingVars,
                   sig, integrateVars>>

\* lines 42-48: call_remote returns an error, which is logged
CallRemoteErr(i) ==
    /\ i \in 1..Len(sends)
    /\ sends[i].status = "calling"
    /\ sends' = [sends EXCEPT ![i].status = "err"]
    /\ UNCHANGED <<extraVars, local_agents, acceptVars, agentsVars, gossipVars, lock, missingVars,
                   sig, integrateVars>>

InitSignal ==
    /\ sig = NoSignal
    /\ sends = <<>>
    \* the other parts are idle
    /\ local_agents = {}
    /\ state_map = {}
    /\ outgoing = <<>>
    /\ gossip_type = "Recent"
    /\ now = 1
    /\ acc = [h \in 1..MaxAccepts |-> NoTask]
    /\ agent_store = [a \in PeerAgents |-> 0]
    /\ agt = [k \in 1..MaxAgentsCalls |-> NoAgentsTask]
    /\ pending_gossip_list = <<>>
    /\ gl = NoLoop
    /\ entry_store = [a \in GAgents |-> {}]
    /\ info_store = [a \in GAgents |-> 0]
    /\ calls = {}
    /\ last = NoExchange
    /\ lock = "free"
    /\ mis = [m \in 1..MaxMissing |-> NoMissingTask]
    /\ db = NoDb
    /\ wf = NoRun
    /\ conv = NoConv
    /\ bun = NoBundle
    /\ ENVIRONMENTS = {}
    /\ dirs = {}
    /\ init_log = <<>>
    /\ env_calls = <<>>
    /\ chain = NoChain
    /\ cel = [t \in 1..MaxCellCalls |-> NoCellTask]
    /\ cells = {}
    /\ invokes = <<>>

NextSignal ==
    \/ \E zome \in Zomes, agents \in AgentLists(MaxSignalAgents), signal \in Signals :
          RemoteSignal(zome, agents, signal)
    \/ \E zome \in Zomes, agents \in AgentLists(MaxSignalAgents), signal \in Signals :
          RemoteSignalConvertErr(zome, agents, signal)
    \/ \E i \in 1..MaxSignalAgents : CallRemoteStart(i)
    \/ \E i \in 1..MaxSignalAgents : CallRemoteOk(i)
    \/ \E i \in 1..MaxSignalAgents : CallRemoteErr(i)

SpecSignal == InitSignal /\ [][NextSignal]_vars

\* C19: remote_signal is send-and-forget: once the signal is converted it
\* returns the success output whatever has become of the sends; it has started
\* exactly one call_remote for each listed agent, to recv_remote_signal of the
\* calling zome, with no cap secret and the same payload; and a send that
\* failed or has not returned keeps no other send from being made.
C19_RemoteSignalSendAndForget ==
    sig.pc = "returned" =>
        /\ sig.converted <=> sig.result = "Ok"
        /\ ~sig.converted => sends = <<>>
        /\ sig.converted =>
              /\ Len(sends) = Len(sig.agents)
              /\ \A i \in 1..Len(sends) :
                    /\ sends[i].agent = sig.agents[i]
                    /\ sends[i].fn_name = "recv_remote_signal"
                    /\ sends[i].zome_name = sig.zome
                    /\ sends[i].cap = "None"
                    /\ sends[i].request = SerializedBytesOf(sig.signal)
                    /\ sends[i].status = "spawned" => ENABLED CallRemoteStart(i)

\* the call has returned Ok; the send to the first agent failed, and the send
\* to the second agent, made after that, is awaited
C19_Witness ==
    /\ sig.pc = "returned" /\ sig.result = "Ok"
    /\ Len(sends) = 2
    /\ sends[1].status = "err"
    /\ sends[2].status = "calling"

----------------------------------------------------------------------------
\* integrate_dht_ops_workflow and its workspace.

\* the DhtOps that may wait in the integration queue, one of each kind
OpKinds == {"StoreElement", "StoreEntry", "RegisterAddLink", "RegisterAgentActivity"}

\* DhtOpHashed::with_data: the hash of an op
DhtOpHash(op) == <<"op_hash", op>>

\* the lists of distinct ops of a given length at most
RECURSIVE OpLists(_)
OpLists(n) ==
    IF n = 0
    THEN {<<>>}
    ELSE OpLists(n - 1)
           \cup {Append(l, k) : l \in {x \in OpLists(n - 1) : Len(x) = n - 1},
                                k \in OpKinds}

Distinct(l) == \A i, j \in 1..Len(l) : i # j => l[i] # l[j]

\* drain_iter_reverse: the values of the queue from the last key to the first
Reverse(l) == [i \in 1..Len(l) |-> l[Len(l) + 1 - i]]

\* what the op puts into the cas of the workspace (lines 78-136)
CasPuts(op) ==
    IF op = "StoreElement" THEN {<<"header", op>>, <<"entry", op>>}
    ELSE IF op = "StoreEntry" THEN {<<"header", op>>, <<"entry", op>>}
    ELSE IF op = "RegisterAddLink" THEN {<<"header", op>>}
    ELSE {}

\* flush_to_txn that writes nothing to the environment
FlushToTxnNothing(d, w) ==
    d

\* IntegrateDhtOpsWorkspace::flush_to_txn: the cas is flushed; the integration
\* queue and the integrated ops are not (lines 242-247)
FlushToTxn(d, w) ==
    [d EXCEPT !.cas = d.cas \cup w.cas]

\* Workspace::new over a reader, then lines 61-64: every value of the queue
\* is drained into ops, in reverse; the workspace's queue is empty
IntegrateStart ==
    /\ wf.pc = "idle"
    /\ wf.run < MaxRuns
    /\ wf' = [NoRun EXCEPT !.pc = "ops", !.run = wf.run,
                           !.ops = Reverse(db.queue), !.drained = Reverse(db.queue),
                           !.integration_queue = <<>>]
    /\ UNCHANGED <<db, signalVars>>
    /\ UNCHANGED <<extraVars, local_agents, acceptVars, agentsVars, gossipVars, lock, missingVars>>

\* lines 66-191: the next op is integrated into the workspace;
\* RegisterAgentActivity is todo!()
IntegrateOp ==
    /\ wf.pc = "ops"
    /\ wf.ops # <<>>
    /\ LET op == Head(wf.ops)
       IN wf' = IF op = "RegisterAgentActivity"
                THEN [NoRun EXCEPT !.pc = "panicked", !.run = wf.run]
                ELSE [wf EXCEPT !.ops = Tail(wf.ops),
                                !.cas = @ \cup CasPuts(op),
                                !.integrated_dht_ops =
                                    @ \cup {[hash |-> DhtOpHash(op), op |-> op]}]
    /\ UNCHANGED <<db, signalVars>>
    /\ UNCHANGED <<extraVars, local_agents, acceptVars, agentsVars, gossipVars, lock, missingVars>>

\* an awaited call of the loop returns an error: `?` ends the workflow and
\* the workspace is dropped
IntegrateOpErr ==
    /\ wf.pc = "ops"
    /\ wf.ops # <<>>
    /\ wf' = [NoRun EXCEPT !.run = wf.run + 1, !.result = "Err"]
    /\ UNCHANGED <<db, signalVars>>
    /\ UNCHANGED <<extraVars, local_agents, acceptVars, agentsVars, gossipVars, lock, missingVars>>

\* lines 193 and 39-52: the loop is over, the workspace is committed with
\* flush_to_txn and the workflow returns Complete
IntegrateCommit ==
    /\ wf.pc = "ops"
    /\ wf.ops = <<>>
    /\ db' = FlushToTxn(db, wf)
    /\ wf' = [NoRun EXCEPT !.run = wf.run + 1, !.drained = wf.drained,
                           !.result = "Complete"]
    /\ UNCHANGED signalVars
    /\ UNCHANGED <<extraVars, local_agents, acceptVars, agentsVars, gossipVars, lock, missingVars>>

InitIntegrate ==
    /\ db \in {[NoDb EXCEPT !.queue = q] : q \in {l \in OpLists(MaxQueue) : Distinct(l)}}
    /\ wf = NoRun
    \* the other parts are idle
    /\ local_agents = {}
    /\ state_map = {}
    /\ outgoing = <<>>
    /\ gossip_type = "Recent"
    /\ now = 1
    /\ acc = [h \in 1..MaxAccepts |-> NoTask]
    /\ agent_store = [a \in PeerAgents |-> 0]
    /\ agt = [k \in 1..MaxAgentsCalls |-> NoAgentsTask]
    /\ pending_gossip_list = <<>>
    /\ gl = NoLoop
    /\ entry_store = [a \in GAgents |-> {}]
    /\ info_store = [a \in GAgents |-> 0]
    /\ calls = {}
    /\ last = NoExchange
    /\ lock = "free"
    /\ mis = [m \in 1..MaxMissing |-> NoMissingTask]
    /\ sig = NoSignal
    /\ sends = <<>>
    /\ conv = NoConv
    /\ bun = NoBundle
    /\ ENVIRONMENTS = {}
    /\ dirs = {}
    /\ init_log = <<>>
    /\ env_calls = <<>>
    /\ chain = NoChain
    /\ cel = [t \in 1..MaxCellCalls |-> NoCellTask]
    /\ cells = {}
    /\ invokes = <<>>

NextIntegrate ==
    \/ IntegrateStart
    \/ IntegrateOp
    \/ IntegrateOpErr
    \/ IntegrateCommit

SpecIntegrate == InitIntegrate /\ [][NextIntegrate]_vars

\* C20: after the workflow has completed and its workspace is committed,
\* every op that was in the integration queue is in the integrated-ops
\* database under its op hash and the integration queue is empty.
C20_QueueIsIntegrated ==
    (wf.pc = "idle" /\ wf.result = "Complete") =>
        /\ \A i \in 1..Len(wf.drained) :
              \E v \in db.integrated :
                  v.hash = DhtOpHash(wf.drained[i]) /\ v.op = wf.drained[i]
        /\ db.queue = <<>>

\* the entry hash of the entry an op carries, as the key of the cas
EntryHashOf(op) ==
    <<"entry", op>>

\* ChainCasBuf::get_entry over a fresh reader of the environment: only
\* what was committed is seen
GetEntry(d, entry_hash) ==
    IF entry_hash \in d.cas THEN entry_hash[2] ELSE "None"

\* C21: after the workflow has run and committed, the entry of every
\* StoreEntry op that was in the integration queue is read back from the
\* cas by its entry hash in a fresh read transaction.
C21_StoreEntryIsRetrievable ==
    (wf.pc = "idle" /\ wf.result = "Complete") =>
        \A i \in 1..Len(wf.drained) :
            wf.drained[i] = "StoreEntry" =>
                GetEntry(db, EntryHashOf(wf.drained[i])) = wf.drained[i]

C21_Witness ==
    /\ wf.pc = "idle"
    /\ wf.result = "Complete"
    /\ \E i \in 1..Len(wf.drained) : wf.drained[i] = "StoreEntry"
    /\ GetEntry(db, EntryHashOf("StoreEntry")) = "StoreEntry"

----------------------------------------------------------------------------
\* dht_op_into_light (produce_dht_op_workflow/dht_op.rs)

DhtOpVariants == {"StoreElement", "StoreEntry", "RegisterAgentActivity",
                  "RegisterReplacedBy", "RegisterDeletedBy", "RegisterAddLink",
                  "RegisterRemoveLink"}
Signatures == {"s1", "s2"}
Headers == {"h1", "h2"}

\* the ops: a signature and a header; the header of RegisterReplacedBy names
\* its update basis
DhtOps ==
    {[kind |-> k, signature |-> sg, header |-> h, update_basis |-> "none"] :
        k \in DhtOpVariants \ {"RegisterReplacedBy"}, sg \in Signatures, h \in Headers}
    \cup {[kind |-> "RegisterReplacedBy", signature |-> sg, header |-> h, update_basis |-> b] :
            sg \in Signatures, h \in Headers, b \in {"Header", "Entry"}}

\* HeaderHashed::with_data(h).into(): the hash of the header
HeaderHashOf(h) == <<"hash", h>>

\* what cascade.dht_get_header_raw may answer in get_header: a header with an
\* entry, a header without one, or nothing
CascadeAnswers == {"entry", "no_entry", "none"}

DhtOpLight(kind, op) ==
    [result |-> "Ok", kind |-> kind, signature |-> op.signature,
     header |-> HeaderHashOf(op.header)]

\* a call that returned no light op
NoLight(result) ==
    [result |-> result, kind |-> "none", signature |-> "none", header |-> <<>>]

\* the match of dht_op_into_light, arm by arm
DhtOpIntoLight(op, cascade) ==
    IF op.kind = "StoreElement" THEN DhtOpLight("StoreElement", op)
    ELSE IF op.kind = "StoreEntry" THEN DhtOpLight("StoreEntry", op)
    ELSE IF op.kind = "RegisterAgentActivity" THEN DhtOpLight("RegisterAgentActivity", op)
    ELSE IF op.kind = "RegisterReplacedBy"
         THEN IF op.update_basis = "Entry" /\ cascade = "no_entry"
              THEN NoLight("MissingEntry")
              ELSE IF op.update_basis = "Entry" /\ cascade = "none"
              THEN NoLight("Panic")
              ELSE DhtOpLight("RegisterReplacedBy", op)
    ELSE IF op.kind = "RegisterDeletedBy" THEN DhtOpLight("RegisterAgentActivity", op)
    ELSE IF op.kind = "RegisterAddLink" THEN DhtOpLight("RegisterAgentActivity", op)
    ELSE DhtOpLight("RegisterAgentActivity", op)

\* one call of dht_op_into_light, for the next op
DhtOpIntoLightCall(cascade) ==
    /\ Len(conv.lights) < Len(conv.ops)
    /\ conv' = [conv EXCEPT !.lights =
                    Append(@, DhtOpIntoLight(conv.ops[Len(conv.lights) + 1], cascade))]
    /\ UNCHANGED <<oldVars, bundleVars, envVars, cellVars>>

\* HeaderHashed::with_data fails and `?` returns the error
DhtOpIntoLightHashErr ==
    /\ Len(conv.lights) < Len(conv.ops)
    /\ conv' = [conv EXCEPT !.lights = Append(@, NoLight("Err"))]
    /\ UNCHANGED <<oldVars, bundleVars, envVars, cellVars>>

InitLight ==
    /\ conv \in {[ops |-> o, lights |-> <<>>] : o \in [1..MaxConvert -> DhtOps]}
    /\ bun = NoBundle
    /\ ENVIRONMENTS = {}
    /\ dirs = {}
    /\ init_log = <<>>
    /\ env_calls = <<>>
    /\ chain = NoChain
    /\ cel = [t \in 1..MaxCellCalls |-> NoCellTask]
    /\ cells = {}
    /\ invokes = <<>>
    \* the other parts are idle
    /\ local_agents = {}
    /\ state_map = {}
    /\ outgoing = <<>>
    /\ gossip_type = "Recent"
    /\ now = 1
    /\ acc = [h \in 1..MaxAccepts |-> NoTask]
    /\ agent_store = [a \in PeerAgents |-> 0]
    /\ agt = [k \in 1..MaxAgentsCalls |-> NoAgentsTask]
    /\ pending_gossip_list = <<>>
    /\ gl = NoLoop
    /\ entry_store = [a \in GAgents |-> {}]
    /\ info_store = [a \in GAgents |-> 0]
    /\ calls = {}
    /\ last = NoExchange
    /\ lock = "free"
    /\ mis = [m \in 1..MaxMissing |-> NoMissingTask]
    /\ sig = NoSignal
    /\ sends = <<>>
    /\ db = NoDb
    /\ wf = NoRun

NextLight ==
    \/ \E cascade \in CascadeAnswers : DhtOpIntoLightCall(cascade)
    \/ DhtOpIntoLightHashErr

SpecLight == InitLight /\ [][NextLight]_vars

\* C30: every op that dht_op_into_light converts becomes the light op of its
\* own kind, with the op's signature and the hash of the op's header; hence
\* two ops of different kinds never become light ops of one kind.
C30_LightKeepsKind ==
    /\ \A i \in 1..Len(conv.lights) :
          conv.lights[i].result = "Ok" =>
              /\ conv.lights[i].kind = conv.ops[i].kind
              /\ conv.lights[i].signature = conv.ops[i].signature
              /\ conv.lights[i].header = HeaderHashOf(conv.ops[i].header)
    /\ \A i, j \in 1..Len(conv.lights) :
          (/\ conv.lights[i].result = "Ok"
           /\ conv.lights[j].result = "Ok"
           /\ conv.ops[i].kind # conv.ops[j].kind)
          => conv.lights[i].kind # conv.lights[j].kind

----------------------------------------------------------------------------
\* DnaBundle::into_dna_file (holochain_types/src/dna/dna_bundle.rs)

Locations == {"l1", "l2"}
WasmBytes == {"w1", "w2"}

\* DnaWasm::to_hash: the hash of the wasm bytes
WasmHashOf(w) == <<"hash", w>>

\* ZomeManifest: the declared hash, <<>> for None, and the location of the wasm
ZomeManifests ==
    {[hash |-> h, location |-> l] :
        h \in {<<>>} \cup {WasmHashOf(w) : w \in WasmBytes}, l \in Locations}

RECURSIVE ZomeLists(_)
ZomeLists(n) ==
    IF n = 0
    THEN {<<>>}
    ELSE ZomeLists(n - 1) \cup
         {Append(l, z) : l \in {x \in ZomeLists(n - 1) : Len(x) = n - 1}, z \in ZomeManifests}

\* hash_bytes over the zomes of one manifest section: each zome removes its
\* resource from the shared map, a resource already removed panics; the
\* results are collected in order, the first mismatch being the error
HashBytes(zomes, available, resources) ==
    LET missing == {i \in 1..Len(zomes) :
                       \/ zomes[i].location \notin available
                       \/ \E j \in 1..(i - 1) : zomes[j].location = zomes[i].location}
        actual(i) == WasmHashOf(resources[zomes[i].location])
        bad == {i \in 1..Len(zomes) : zomes[i].hash # <<>> /\ zomes[i].hash # actual(i)}
    IN IF missing # {}
       THEN [kind |-> "Panic"]
       ELSE IF bad # {}
       THEN LET i == CHOOSE x \in bad : \A y \in bad : x <= y
            IN [kind |-> "WasmHashMismatch", expected |-> zomes[i].hash, actual |-> actual(i)]
       ELSE [kind |-> "Ok",
             data |-> [i \in 1..Len(zomes) |->
                          [zome_name |-> i, hash |-> actual(i),
                           wasm |-> resources[zomes[i].location]]],
             available |-> available \ {zomes[i].location : i \in 1..Len(zomes)}]

\* inner_maps, then DnaFile::from_parts: the zome definitions of both
\* sections and the wasms as a map keyed by wasm hash
IntoDnaFileResult(b) ==
    LET integrity == HashBytes(b.integrity, Locations, b.resources)
    IN IF integrity.kind # "Ok"
       THEN integrity
       ELSE LET coordinator == HashBytes(b.coordinator, integrity.available, b.resources)
            IN IF coordinator.kind # "Ok"
               THEN coordinator
               ELSE [kind |-> "Ok",
                     integrity_zomes |-> [i \in 1..Len(integrity.data) |->
                                            [zome_name |-> integrity.data[i].zome_name,
                                             wasm_hash |-> integrity.data[i].hash]],
                     coordinator_zomes |-> [i \in 1..Len(coordinator.data) |->
                                              [zome_name |-> coordinator.data[i].zome_name,
                                               wasm_hash |-> coordinator.data[i].hash]],
                     code |-> {<<integrity.data[i].hash, integrity.data[i].wasm>> :
                                  i \in 1..Len(integrity.data)}
                              \cup {<<coordinator.data[i].hash, coordinator.data[i].wasm>> :
                                       i \in 1..Len(coordinator.data)}]

\* into_dna_file runs to its end: a DnaFile, the mismatch error or the panic
IntoDnaFile ==
    /\ bun.result.kind = "none"
    /\ bun' = [bun EXCEPT !.result = IntoDnaFileResult(bun)]
    /\ UNCHANGED <<oldVars, lightVars, envVars, cellVars>>

\* line 66: resolve_all_cloned fails
IntoDnaFileResolveErr ==
    /\ bun.result.kind = "none"
    /\ bun' = [bun EXCEPT !.result = [kind |-> "ResolveErr"]]
    /\ UNCHANGED <<oldVars, lightVars, envVars, cellVars>>

\* line 45: inner_maps returned the maps and to_dna_def fails
IntoDnaFileDefErr ==
    /\ bun.result.kind = "none"
    /\ IntoDnaFileResult(bun).kind = "Ok"
    /\ bun' = [bun EXCEPT !.result = [kind |-> "DefErr"]]
    /\ UNCHANGED <<oldVars, lightVars, envVars, cellVars>>

InitBundle ==
    /\ bun \in {[NoBundle EXCEPT !.integrity = i, !.coordinator = c, !.resources = r] :
                  i \in ZomeLists(MaxZomes), c \in ZomeLists(MaxCoordinatorZomes),
                  r \in [Locations -> WasmBytes]}
    /\ conv = NoConv
    /\ ENVIRONMENTS = {}
    /\ dirs = {}
    /\ init_log = <<>>
    /\ env_calls = <<>>
    /\ chain = NoChain
    /\ cel = [t \in 1..MaxCellCalls |-> NoCellTask]
    /\ cells = {}
    /\ invokes = <<>>
    \* the other parts are idle
    /\ local_agents = {}
    /\ state_map = {}
    /\ outgoing = <<>>
    /\ gossip_type = "Recent"
    /\ now = 1
    /\ acc = [h \in 1..MaxAccepts |-> NoTask]
    /\ agent_store = [a \in PeerAgents |-> 0]
    /\ agt = [k \in 1..MaxAgentsCalls |-> NoAgentsTask]
    /\ pending_gossip_list = <<>>
    /\ gl = NoLoop
    /\ entry_store = [a \in GAgents |-> {}]
    /\ info_store = [a \in GAgents |-> 0]
    /\ calls = {}
    /\ last = NoExchange
    /\ lock = "free"
    /\ mis = [m \in 1..MaxMissing |-> NoMissingTask]
    /\ sig = NoSignal
    /\ sends = <<>>
    /\ db = NoDb
    /\ wf = NoRun

NextBundle ==
    \/ IntoDnaFile
    \/ IntoDnaFileResolveErr
    \/ IntoDnaFileDefErr

SpecBundle == InitBundle /\ [][NextBundle]_vars

\* the zomes of the manifest, both sections
ManifestZomes(b) == b.integrity \o b.coordinator

\* some zome declares a hash that is not the hash of its wasm
DeclaresWrongHash(b) ==
    \E i \in 1..Len(ManifestZomes(b)) :
        /\ ManifestZomes(b)[i].hash # <<>>
        /\ ManifestZomes(b)[i].hash # WasmHashOf(b.resources[ManifestZomes(b)[i].location])

\* C24: once the resources are resolved and the DnaDef can be built,
\* into_dna_file fails with WasmHashMismatch(expected, actual), and yields no
\* DnaFile, whenever a zome declares a hash other than the hash of its wasm;
\* otherwise it succeeds with one zome definition and one wasm per zome of the
\* manifest.
C24_HashMismatchOrOneWasmPerZome ==
    (bun.result.kind \notin {"none", "ResolveErr", "DefErr"}) =>
        IF DeclaresWrongHash(bun)
        THEN /\ bun.result.kind = "WasmHashMismatch"
             /\ \E i \in 1..Len(ManifestZomes(bun)) :
                   /\ bun.result.expected = ManifestZomes(bun)[i].hash
                   /\ bun.result.actual =
                          WasmHashOf(bun.resources[ManifestZomes(bun)[i].location])
                   /\ bun.result.expected # bun.result.actual
        ELSE /\ bun.result.kind = "Ok"
             /\ Len(bun.result.integrity_zomes) + Len(bun.result.coordinator_zomes)
                   = Len(ManifestZomes(bun))
             /\ Cardinality(bun.result.code) = Len(ManifestZomes(bun))

----------------------------------------------------------------------------
\* EnvironmentWrite::new and the ENVIRONMENTS registry (holochain_sqlite/src/env.rs)

EnvPrefixes == {"p"}
EnvKinds == {"Conductor", "Wasm"}
Keystores == {"k1", "k2"}

\* EnvironmentKind::path
KindPath(kind) == IF kind = "Conductor" THEN "conductor" ELSE "wasm"

\* path_prefix.join(kind.path())
JoinPath(path_prefix, kind) == <<path_prefix, KindPath(kind)>>

EnvPaths == {JoinPath(p, k) : p \in EnvPrefixes, k \in EnvKinds}

\* the entries of the registry under a path
EnvironmentsAt(map, path) == {e \in map : e.path = path}

\* the number of runs of initialize_databases logged for a path that ended
\* as given
InitRuns(log, path, ok) ==
    Cardinality({i \in 1..Len(log) : log[i].path = path /\ log[i].ok = ok})

\* a new that puts the caller's environment in place of the registered one
EnvironmentWriteNewReplacing(path_prefix, kind, keystore) ==
    LET path == JoinPath(path_prefix, kind)
        env == [kind |-> kind, keystore |-> keystore, path |-> path]
    IN /\ Len(env_calls) < MaxEnvCalls
       /\ dirs' = dirs \cup {path}
       /\ ENVIRONMENTS' = {e \in ENVIRONMENTS : e.path # path} \cup {[path |-> path, env |-> env]}
       /\ init_log' = IF EnvironmentsAt(ENVIRONMENTS, path) = {}
                      THEN Append(init_log, [path |-> path, ok |-> TRUE])
                      ELSE init_log
       /\ env_calls' = Append(env_calls, [path |-> path, kind |-> kind,
                                          keystore |-> keystore, result |-> env])
       /\ UNCHANGED <<oldVars, lightVars, bundleVars, cellVars>>

\* EnvironmentWrite::new returns Ok, all of it under the write lock of
\* ENVIRONMENTS: the directory is created when missing; an occupied entry
\* gives its environment, a vacant one is filled after initialize_databases
EnvironmentWriteNew(path_prefix, kind, keystore) ==
    LET path == JoinPath(path_prefix, kind)
        occupied == EnvironmentsAt(ENVIRONMENTS, path)
        env == IF occupied # {}
               THEN (CHOOSE e \in occupied : TRUE).env
               ELSE [kind |-> kind, keystore |-> keystore, path |-> path]
    IN /\ Len(env_calls) < MaxEnvCalls
       /\ dirs' = dirs \cup {path}
       /\ ENVIRONMENTS' = IF occupied # {}
                          THEN ENVIRONMENTS
                          ELSE ENVIRONMENTS \cup {[path |-> path, env |-> env]}
       /\ init_log' = IF occupied # {}
                      THEN init_log
                      ELSE Append(init_log, [path |-> path, ok |-> TRUE])
       /\ env_calls' = Append(env_calls, [path |-> path, kind |-> kind,
                                          keystore |-> keystore, result |-> env])
       /\ UNCHANGED <<oldVars, lightVars, bundleVars, cellVars>>

\* lines 148-151: the directory is missing and create_dir fails
EnvironmentWriteNewCreateDirErr(path_prefix, kind, keystore) ==
    LET path == JoinPath(path_prefix, kind)
    IN /\ Len(env_calls) < MaxEnvCalls
       /\ path \notin dirs
       /\ env_calls' = Append(env_calls, [path |-> path, kind |-> kind,
                                          keystore |-> keystore,
                                          result |-> [kind |-> "EnvironmentMissing"]])
       /\ UNCHANGED <<ENVIRONMENTS, dirs, init_log>>
       /\ UNCHANGED <<oldVars, lightVars, bundleVars, cellVars>>

\* line 157: the entry is vacant and initialize_databases fails; `?` returns
\* the error and nothing is inserted
EnvironmentWriteNewInitErr(path_prefix, kind, keystore) ==
    LET path == JoinPath(path_prefix, kind)
    IN /\ Len(env_calls) < MaxEnvCalls
       /\ EnvironmentsAt(ENVIRONMENTS, path) = {}
       /\ dirs' = dirs \cup {path}
       /\ init_log' = Append(init_log, [path |-> path, ok |-> FALSE])
       /\ env_calls' = Append(env_calls, [path |-> path, kind |-> kind,
                                          keystore |-> keystore,
                                          result |-> [kind |-> "DatabaseError"]])
       /\ UNCHANGED ENVIRONMENTS
       /\ UNCHANGED <<oldVars, lightVars, bundleVars, cellVars>>

InitEnv ==
    /\ ENVIRONMENTS = {}
    /\ dirs \in SUBSET EnvPaths
    /\ init_log = <<>>
    /\ env_calls = <<>>
    /\ conv = NoConv
    /\ bun = NoBundle
    /\ chain = NoChain
    /\ cel = [t \in 1..MaxCellCalls |-> NoCellTask]
    /\ cells = {}
    /\ invokes = <<>>
    \* the other parts are idle
    /\ local_agents = {}
    /\ state_map = {}
    /\ outgoing = <<>>
    /\ gossip_type = "Recent"
    /\ now = 1
    /\ acc = [h \in 1..MaxAccepts |-> NoTask]
    /\ agent_store = [a \in PeerAgents |-> 0]
    /\ agt = [k \in 1..MaxAgentsCalls |-> NoAgentsTask]
    /\ pending_gossip_list = <<>>
    /\ gl = NoLoop
    /\ entry_store = [a \in GAgents |-> {}]
    /\ info_store = [a \in GAgents |-> 0]
    /\ calls = {}
    /\ last = NoExchange
    /\ lock = "free"
    /\ mis = [m \in 1..MaxMissing |-> NoMissingTask]
    /\ sig = NoSignal
    /\ sends = <<>>
    /\ db = NoDb
    /\ wf = NoRun

NextEnv ==
    \/ \E p \in EnvPrefixes, k \in EnvKinds, ks \in Keystores : EnvironmentWriteNew(p, k, ks)
    \/ \E p \in EnvPrefixes, k \in EnvKinds, ks \in Keystores :
          EnvironmentWriteNewCreateDirErr(p, k, ks)
    \/ \E p \in EnvPrefixes, k \in EnvKinds, ks \in Keystores :
          EnvironmentWriteNewInitErr(p, k, ks)

SpecEnv == InitEnv /\ [][NextEnv]_vars

\* the calls that returned an environment
ReturnedEnv(i) == env_calls[i].result.kind \in EnvKinds

\* the registry holds at most one environment per path, and every call that
\* returns an environment returns the one the first such call for the path
\* returned, which is the one registered
SingletonPerPath ==
    /\ \A e1, e2 \in ENVIRONMENTS : e1.path = e2.path => e1 = e2
    /\ \A i \in 1..Len(env_calls) :
          ReturnedEnv(i) =>
              /\ [path |-> env_calls[i].path, env |-> env_calls[i].result] \in ENVIRONMENTS
              /\ \A j \in 1..i :
                    (ReturnedEnv(j) /\ env_calls[j].path = env_calls[i].path)
                    => env_calls[i].result = env_calls[j].result

\* C23 as stated: environments are singletons per path, and
\* initialize_databases runs exactly once for each path: never twice, and
\* once for every registered path.
C23_SingletonInitializedOnce ==
    /\ SingletonPerPath
    /\ \A p \in EnvPaths :
          /\ InitRuns(init_log, p, TRUE) + InitRuns(init_log, p, FALSE) <= 1
          /\ EnvironmentsAt(ENVIRONMENTS, p) # {}
                => InitRuns(init_log, p, TRUE) + InitRuns(init_log, p, FALSE) = 1

\* C23 amended: environments are singletons per path, and
\* initialize_databases succeeds exactly once for each registered path and
\* is not run for a path once it is registered; a run that fails registers
\* nothing and may be followed by another.
C23_SingletonInitializedOnceOk ==
    /\ SingletonPerPath
    /\ \A p \in EnvPaths :
          /\ InitRuns(init_log, p, TRUE) = IF EnvironmentsAt(ENVIRONMENTS, p) # {} THEN 1 ELSE 0
          /\ \A i \in 1..Len(init_log) :
                (init_log[i].path = p /\ init_log[i].ok)
                => \A j \in (i + 1)..Len(init_log) : init_log[j].path # p

\* a later call for a registered path, with another keystore, got the
\* environment of the first call, after a failed initialization of the path
C23_Witness ==
    \E i, j \in 1..Len(env_calls) :
        /\ i < j
        /\ ReturnedEnv(i)
        /\ ReturnedEnv(j)
        /\ env_calls[i].path = env_calls[j].path
        /\ env_calls[j].keystore # env_calls[i].keystore
        /\ env_calls[j].result.keystore = env_calls[i].keystore
        /\ InitRuns(init_log, env_calls[i].path, FALSE) = 1

----------------------------------------------------------------------------
\* Cell::create, Cell::genesis and Cell::call_zome (conductor/cell.rs), on
\* the environment of one cell id

\* what the init callbacks may return
InitResults == {"Pass", "Fail", "UnresolvedDependencies"}

\* a Cell call that returned
CellReturned(task, result) == [task EXCEPT !.pc = "done", !.result = result]

\* the calls start in the order of their numbers
CellCallStarts(t) ==
    /\ cel[t].pc = "new"
    /\ \A u \in 1..(t - 1) : cel[u].pc # "new"

\* lines 74-86: create gets the environment and awaits its guard
CreateStart(t) ==
    /\ CellCallStarts(t)
    /\ cel' = [cel EXCEPT ![t] = [@ EXCEPT !.op = "create", !.pc = "check"]]
    /\ UNCHANGED <<chain, cells, invokes>>
    /\ UNCHANGED <<oldVars, lightVars, bundleVars, envVars>>

\* a create that hands out a Cell whatever the source chain holds
CreateCheckWithoutTest(t) ==
    /\ cel[t].op = "create"
    /\ cel[t].pc = "check"
    /\ cel' = [cel EXCEPT ![t] = CellReturned(@, "Cell")]
    /\ cells' = cells \cup {t}
    /\ UNCHANGED <<chain, invokes>>
    /\ UNCHANGED <<oldVars, lightVars, bundleVars, envVars>>

\* lines 83-99: has_genesis is read from the source chain over a fresh
\* reader; a Cell is returned only if it holds
CreateCheck(t) ==
    /\ cel[t].op = "create"
    /\ cel[t].pc = "check"
    /\ IF chain.genesis
       THEN /\ cel' = [cel EXCEPT ![t] = CellReturned(@, "Cell")]
            /\ cells' = cells \cup {t}
       ELSE /\ cel' = [cel EXCEPT ![t] = CellReturned(@, "CellWithoutGenesis")]
            /\ UNCHANGED cells
    /\ UNCHANGED <<chain, invokes>>
    /\ UNCHANGED <<oldVars, lightVars, bundleVars, envVars>>

\* lines 78, 86, 87: EnvironmentWrite::new, the reader or the source chain
\* buffer fails and `?` returns the error
CreateErr(t) ==
    /\ \/ CellCallStarts(t)
       \/ cel[t].op = "create" /\ cel[t].pc = "check"
    /\ cel' = [cel EXCEPT ![t] = CellReturned([@ EXCEPT !.op = "create"], "Err")]
    /\ UNCHANGED <<chain, cells, invokes>>
    /\ UNCHANGED <<oldVars, lightVars, bundleVars, envVars>>

\* lines 110-123: genesis gets the environment and a reader and asks the
\* conductor for the dna
GenesisStart(t) ==
    /\ CellCallStarts(t)
    /\ cel' = [cel EXCEPT ![t] = [@ EXCEPT !.op = "genesis", !.pc = "dna"]]
    /\ UNCHANGED <<chain, cells, invokes>>
    /\ UNCHANGED <<oldVars, lightVars, bundleVars, envVars>>

\* lines 122-125: the dna is there
GenesisDnaOk(t) ==
    /\ cel[t].op = "genesis"
    /\ cel[t].pc = "dna"
    /\ cel' = [cel EXCEPT ![t] = [@ EXCEPT !.pc = "run"]]
    /\ UNCHANGED <<chain, cells, invokes>>
    /\ UNCHANGED <<oldVars, lightVars, bundleVars, envVars>>

\* line 125: get_dna gives None
GenesisDnaMissing(t) ==
    /\ cel[t].op = "genesis"
    /\ cel[t].pc = "dna"
    /\ cel' = [cel EXCEPT ![t] = CellReturned(@, "DnaMissing")]
    /\ UNCHANGED <<chain, cells, invokes>>
    /\ UNCHANGED <<oldVars, lightVars, bundleVars, envVars>>

\* lines 140-146: the genesis workflow has run and its workspace is
\* committed: the source chain holds the genesis elements
GenesisRunOk(t) ==
    /\ cel[t].op = "genesis"
    /\ cel[t].pc = "run"
    /\ chain' = [chain EXCEPT !.genesis = TRUE]
    /\ cel' = [cel EXCEPT ![t] = CellReturned(@, "Ok")]
    /\ UNCHANGED <<cells, invokes>>
    /\ UNCHANGED <<oldVars, lightVars, bundleVars, envVars>>

\* lines 110-145: EnvironmentWrite::new, the reader, the workspace or the
\* workflow fails; nothing is committed
GenesisErr(t) ==
    /\ \/ CellCallStarts(t)
       \/ cel[t].op = "genesis" /\ cel[t].pc \in {"dna", "run"}
    /\ cel' = [cel EXCEPT ![t] = CellReturned([@ EXCEPT !.op = "genesis"], "Err")]
    /\ UNCHANGED <<chain, cells, invokes>>
    /\ UNCHANGED <<oldVars, lightVars, bundleVars, envVars>>

\* lines 176-181 and 198-203: call_zome on a Cell enters check_or_run_init,
\* which awaits the guard of the environment
CallZomeStart(t) ==
    /\ CellCallStarts(t)
    /\ cells # {}
    /\ cel' = [cel EXCEPT ![t] = [@ EXCEPT !.op = "call_zome", !.pc = "check_init"]]
    /\ UNCHANGED <<chain, cells, invokes>>
    /\ UNCHANGED <<oldVars, lightVars, bundleVars, envVars>>

\* lines 204-221: has_initialized is read; if it holds check_or_run_init
\* returns Ok, else the dna is asked for
CheckInit(t) ==
    /\ cel[t].op = "call_zome"
    /\ cel[t].pc = "check_init"
    /\ cel' = [cel EXCEPT ![t] = IF chain.initialized
                                 THEN [@ EXCEPT !.pc = "invoke", !.init = "initialized"]
                                 ELSE [@ EXCEPT !.pc = "init_dna"]]
    /\ UNCHANGED <<chain, cells, invokes>>
    /\ UNCHANGED <<oldVars, lightVars, bundleVars, envVars>>

\* lines 219-233: the dna is there and the init workflow is started
InitDnaOk(t) ==
    /\ cel[t].op = "call_zome"
    /\ cel[t].pc = "init_dna"
    /\ cel' = [cel EXCEPT ![t] = [@ EXCEPT !.pc = "init_run"]]
    /\ UNCHANGED <<chain, cells, invokes>>
    /\ UNCHANGED <<oldVars, lightVars, bundleVars, envVars>>

\* line 222: get_dna gives None
InitDnaMissing(t) ==
    /\ cel[t].op = "call_zome"
    /\ cel[t].pc = "init_dna"
    /\ cel' = [cel EXCEPT ![t] = CellReturned(@, "DnaMissing")]
    /\ UNCHANGED <<chain, cells, invokes>>
    /\ UNCHANGED <<oldVars, lightVars, bundleVars, envVars>>

\* an init whose result is not looked at
RunInitIgnoringResult(t, init_result) ==
    /\ cel[t].op = "call_zome"
    /\ cel[t].pc = "init_run"
    /\ chain' = IF init_result = "Pass" THEN [chain EXCEPT !.initialized = TRUE] ELSE chain
    /\ cel' = [cel EXCEPT ![t] = [@ EXCEPT !.pc = "invoke", !.init = init_result]]
    /\ UNCHANGED <<cells, invokes>>
    /\ UNCHANGED <<oldVars, lightVars, bundleVars, envVars>>

\* lines 234-240: the init workflow returns its result, having marked the
\* source chain initialized when the result is Pass; any other result is
\* returned as InitFailed
RunInit(t, init_result) ==
    /\ cel[t].op = "call_zome"
    /\ cel[t].pc = "init_run"
    /\ chain' = IF init_result = "Pass" THEN [chain EXCEPT !.initialized = TRUE] ELSE chain
    /\ cel' = [cel EXCEPT ![t] =
                  IF init_result = "Pass"
                  THEN [@ EXCEPT !.pc = "invoke", !.init = init_result]
                  ELSE CellReturned([@ EXCEPT !.init = init_result], "InitFailed")]
    /\ UNCHANGED <<cells, invokes>>
    /\ UNCHANGED <<oldVars, lightVars, bundleVars, envVars>>

\* lines 183-192: check_or_run_init returned Ok; the invoke-zome workflow is
\* built and started
InvokeStart(t) ==
    /\ cel[t].op = "call_zome"
    /\ cel[t].pc = "invoke"
    /\ invokes' = Append(invokes, t)
    /\ cel' = [cel EXCEPT ![t] = [@ EXCEPT !.pc = "invoking"]]
    /\ UNCHANGED <<chain, cells>>
    /\ UNCHANGED <<oldVars, lightVars, bundleVars, envVars>>

\* lines 193-195: the invoke-zome workflow returns
InvokeDone(t) ==
    /\ cel[t].op = "call_zome"
    /\ cel[t].pc = "invoking"
    /\ \E r \in {"Ok", "Err"} : cel' = [cel EXCEPT ![t] = CellReturned(@, r)]
    /\ UNCHANGED <<chain, cells, invokes>>
    /\ UNCHANGED <<oldVars, lightVars, bundleVars, envVars>>

\* a `?` of call_zome or check_or_run_init outside the init result: the
\* reader, the workspace, the init workflow run or the ribosome fails
CallZomeErr(t) ==
    /\ cel[t].op = "call_zome"
    /\ cel[t].pc \in {"check_init", "init_run", "invoke"}
    /\ cel' = [cel EXCEPT ![t] = CellReturned(@, "Err")]
    /\ UNCHANGED <<chain, cells, invokes>>
    /\ UNCHANGED <<oldVars, lightVars, bundleVars, envVars>>

InitCell ==
    /\ chain = NoChain
    /\ cel = [t \in 1..MaxCellCalls |-> NoCellTask]
    /\ cells = {}
    /\ invokes = <<>>
    /\ conv = NoConv
    /\ bun = NoBundle
    /\ ENVIRONMENTS = {}
    /\ dirs = {}
    /\ init_log = <<>>
    /\ env_calls = <<>>
    \* the other parts are idle
    /\ local_agents = {}
    /\ state_map = {}
    /\ outgoing = <<>>
    /\ gossip_type = "Recent"
    /\ now = 1
    /\ acc = [h \in 1..MaxAccepts |-> NoTask]
    /\ agent_store = [a \in PeerAgents |-> 0]
    /\ agt = [k \in 1..MaxAgentsCalls |-> NoAgentsTask]
    /\ pending_gossip_list = <<>>
    /\ gl = NoLoop
    /\ entry_store = [a \in GAgents |-> {}]
    /\ info_store = [a \in GAgents |-> 0]
    /\ calls = {}
    /\ last = NoExchange
    /\ lock = "free"
    /\ mis = [m \in 1..MaxMissing |-> NoMissingTask]
    /\ sig = NoSignal
    /\ sends = <<>>
    /\ db = NoDb
    /\ wf = NoRun

NextCell ==
    \/ \E t \in 1..MaxCellCalls : CreateStart(t)
    \/ \E t \in 1..MaxCellCalls : CreateCheck(t)
    \/ \E t \in 1..MaxCellCalls : CreateErr(t)
    \/ \E t \in 1..MaxCellCalls : GenesisStart(t)
    \/ \E t \in 1..MaxCellCalls : GenesisDnaOk(t)
    \/ \E t \in 1..MaxCellCalls : GenesisDnaMissing(t)
    \/ \E t \in 1..MaxCellCalls : GenesisRunOk(t)
    \/ \E t \in 1..MaxCellCalls : GenesisErr(t)
    \/ \E t \in 1..MaxCellCalls : CallZomeStart(t)
    \/ \E t \in 1..MaxCellCalls : CheckInit(t)
    \/ \E t \in 1..MaxCellCalls : InitDnaOk(t)
    \/ \E t \in 1..MaxCellCalls : InitDnaMissing(t)
    \/ \E t \in 1..MaxCellCalls, r \in InitResults : RunInit(t, r)
    \/ \E t \in 1..MaxCellCalls : InvokeStart(t)
    \/ \E t \in 1..MaxCellCalls : InvokeDone(t)
    \/ \E t \in 1..MaxCellCalls : CallZomeErr(t)

SpecCell == InitCell /\ [][NextCell]_vars

\* C22: genesis precedes cell creation: a Cell exists only if the genesis
\* workflow has been committed to the source chain, and a create that reads a
\* source chain without genesis returns CellWithoutGenesis (or the error of
\* the read) and no Cell, however the create and genesis calls interleave.
C22_GenesisBeforeCell ==
    /\ [](/\ cells # {} => chain.genesis
          /\ \A t \in 1..MaxCellCalls :
                (cel[t].op = "create" /\ cel[t].pc = "done") =>
                    (t \in cells <=> cel[t].result = "Cell"))
    /\ [][\A t \in 1..MaxCellCalls :
             (/\ cel[t].op = "create"
              /\ cel[t].pc = "check"
              /\ cel'[t].pc = "done"
              /\ ~chain.genesis)
             => /\ cel'[t].result \in {"CellWithoutGenesis", "Err"}
                /\ cells' = cells]_vars

\* a create before the genesis was refused, one after it returned the Cell
C22_Witness ==
    \E t, u \in 1..MaxCellCalls :
        /\ cel[t].op = "create"
        /\ cel[t].result = "CellWithoutGenesis"
        /\ cel[u].op = "create"
        /\ cel[u].result = "Cell"

\* C29: the invoke-zome workflow of a call_zome is started only after that
\* call saw the source chain initialized or ran the init workflow with
\* result Pass; a call whose init returned anything else has returned
\* InitFailed and started no invocation.
C29_InitBeforeInvoke ==
    /\ \A i \in 1..Len(invokes) : cel[invokes[i]].init \in {"initialized", "Pass"}
    /\ \A t \in 1..MaxCellCalls :
          cel[t].init \in (InitResults \ {"Pass"}) =>
              /\ cel[t].pc = "done"
              /\ cel[t].result = "InitFailed"
              /\ \A i \in 1..Len(invokes) : invokes[i] # t

\* one call ran init, got Fail and returned InitFailed; another ran init,
\* got Pass and started its invocation
C29_Witness ==
    \E t, u \in 1..MaxCellCalls :
        /\ cel[t].init = "Pass"
        /\ \E i \in 1..Len(invokes) : invokes[i] = t
        /\ cel[u].init = "Fail"
        /\ cel[u].result = "InitFailed"

====
